---- MODULE Spec2Model ----
(***************************************************************************)
(* State-machine model of the nexterm connection-bridging subsystem:       *)
(* the terminal gateway (src/ssh/handler.rs: handle_socket,                *)
(* handle_exec_mode), the file-transfer gateway (src/sftp/handler.rs:      *)
(* handle_sftp_socket, handle_sftp_command), the transport session         *)
(* (src/ssh/session.rs, src/sftp/session.rs) and the pooled buffer         *)
(* (src/util/buffer_pool.rs).                                              *)
(*                                                                         *)
(* One behaviour is one client connection.  `kind` selects the gateway.    *)
(* `pc` is the position of the connection's task.  The client, the backend *)
(* and the clock are the environment: their choices are the \E of the      *)
(* actions.                                                                *)
(***************************************************************************)
EXTENDS Integers, Sequences, FiniteSets, Bags, TLC

\* ------------------------------------------------------------------ bounds
\* largest timeout_secs a client asks for (exec mode)
MaxTimeoutSecs == 1
\* channel events (other than end-of-stream / close) the backend delivers
MaxEvents == 2
\* client frames one session receives after the parameters message
MaxMsgs == 2
\* whole chunks a downloaded file may span
MaxChunks == 1
\* times the clock of the file-transfer loop moves on
MaxAdvances == 12
\* file-transfer sessions that are inside get() or hold a buffer at one time
MaxSessions == 11
\* times the clock of the terminal loop moves on
MaxShellAdvances == 3
\* client frames one terminal session receives while streaming
MaxShellMsgs == 2

\* ------------------------------------------------------- program constants
\* exec mode: exit code reported on timeout
EXEC_TIMEOUT_CODE == 124
\* exec mode: bound of one channel wait, in ms
EXEC_POLL_MS == 100
\* file transfer: CHUNK_SIZE = CHUNK_SIZE_LARGE = 10 * 1024 * 1024
CHUNK_SIZE == 10485760
\* main: BufferManager::new(5 * 1024 * 1024)
POOL_BUFFER_SIZE == 5242880
\* main: BufferPool::builder(..).max_size(10)
POOL_MAX_SIZE == 10
\* 0o170000, the file-type bits of a mode word.
S_IFMT == 61440
\* 0o777, the permission bits of a mode word.
PERM_MASK == 511
\* 2 * 1024 * 1024, the largest file read_file_content returns.
MAX_CONTENT_SIZE == 2097152
\* UploadState::is_timeout: 300 s
UPLOAD_IDLE_SECS == 300
\* check_handle / keepalive_interval period: 30 s
TICK_SECS == 30
\* terminal keep-alive idle threshold: 50 s
KEEPALIVE_IDLE_SECS == 50

\* --------------------------------------------------------------- helpers
None == << >>
Some(v) == << v >>
IsSome(o) == Len(o) = 1
Unwrap(o) == o[1]
UnwrapOr(o, d) == IF Len(o) = 1 THEN o[1] ELSE d

Min(a, b) == IF a < b THEN a ELSE b

\* A frame handed to the client socket: its kind, a text or byte payload
\* (a sequence), two numeric fields, and whether the transport accepted it.
Frame(t, info, a, b, ok) == [type |-> t, info |-> info, a |-> a, b |-> b, ok |-> ok]

VARIABLES
    kind,         \* "ssh" | "sftp": which gateway serves the connection
    pc,           \* position of the connection's task
    ws,           \* client socket: "open" | "broken" | "closed"
    wsOut,        \* frames handed to socket.send, in order
    authed,       \* backend connect and authentication succeeded
    guard,        \* the session guard holds the backend handle
    disconnects,  \* disconnects of the backend handle initiated so far
    params,       \* the negotiated connection parameters the bridge uses
    code,         \* exec mode: Option<exit status>
    output,       \* exec mode: accumulated output text
    elapsed,      \* exec mode: start_time.elapsed(), in ms
    sendTime,     \* exec mode: the part of elapsed spent in socket.send
    nEvents,      \* channel events delivered so far
    endCause,     \* exec mode: what ended the poll loop
    endAt,        \* exec mode: elapsed when the loop-ending event arrived
    seenExit,     \* exec mode: the exit-status events delivered, in order
    nMsgs,        \* client frames received by the bridge loop so far
    now,          \* bridge loop clock, in s
    nextTick,     \* when the loop's interval timer is next ready, in s
    nAdv,         \* how often the loop clock has moved on
    lastInput,    \* terminal: last_user_activity, in s
    chanOut,      \* terminal: what was written to the channel, in order
    lastFrame,    \* terminal: the client frame the loop took last
    chanIn,       \* terminal: the events the loop took from the channel, in order
    upload_state, \* file transfer: Option<UploadState>
    files,        \* file transfer: the remote write handles created so far
    buffer,       \* file transfer: Option<length of the checked-out buffer>
    dl,           \* file transfer: the locals of the download in progress
    lastCmd,      \* file transfer: the frame the loop took last
    remoteOps,    \* file transfer: the requests made of the backend, in order
    lastResult,   \* file transfer: how the handling of the last frame ended
    nego,         \* what negotiation read before the connect call
    poolOut,      \* buffer pool: the buffers checked out, a bag
    poolIdle,     \* buffer pool: the buffers waiting in the pool, oldest first
    poolWaiters,  \* buffer pool: sessions waiting inside get()
    poolCreated,  \* buffer pool: buffers the manager has created so far
    lastRecycled  \* buffer pool: Option<the buffer recycle() handled last>

vars == << kind, pc, ws, wsOut, authed, guard, disconnects, params, code,
           output, elapsed, sendTime, nEvents, endCause, endAt, seenExit,
           nMsgs, now, nextTick, nAdv, lastInput, chanOut, lastFrame, chanIn,
           upload_state, files, buffer, dl, lastCmd, remoteOps, lastResult, nego,
           poolOut, poolIdle, poolWaiters, poolCreated, lastRecycled >>

poolVars == << poolOut, poolIdle, poolWaiters, poolCreated, lastRecycled >>
connVars == << kind, pc, ws, wsOut, authed, guard, disconnects, params, code,
               output, elapsed, sendTime, nEvents, endCause, endAt, seenExit,
               nMsgs, now, nextTick, nAdv, lastInput, chanOut, lastFrame, chanIn,
               upload_state, files, buffer, dl, lastCmd, remoteOps, lastResult, nego >>
loopVars == << nMsgs, now, nextTick, nAdv >>
shellVars == << lastInput, chanOut, lastFrame, chanIn >>
sftpVars == << upload_state, files, buffer, dl, lastCmd, remoteOps, lastResult >>

execVars == << code, output, elapsed, sendTime, nEvents, endCause, endAt, seenExit >>

\* ------------------------------------------------------------ the socket
\* socket.send(frame): the transport accepts the frame or fails; once it has
\* failed every later send fails too.
SendOutcomes(s) == IF s = "open" THEN {TRUE, FALSE} ELSE {FALSE}
WsAfterSend(s, ok) == IF s = "open" /\ ~ok THEN "broken" ELSE s

\* send_error / send_sftp_error: one {type:"error", message} text frame.
ErrorFrame(why, ok) == Frame("error", << why >>, 0, 0, ok)

\* A handler that lost sight of socket.close().
WsAfterClose_Skipped(s) == s

\* socket.close()
WsAfterClose(s) == "closed"

\* The socket once the handler has returned: socket.close() leaves it
\* "closed"; a socket that is only dropped is "dropped".
WsAfterReturn(s) == IF s = "closed" THEN "closed" ELSE "dropped"

\* SshSessionGuard::drop / SftpConnectionGuard::drop: take() the handle and,
\* if it was there, spawn the disconnect.
GuardDrop(g) == IF g THEN 1 ELSE 0

\* A request made of the backend through sftp_conn.sftp or an open file:
\* its name and up to two numbers it carries.
Op(name, a, b) == [op |-> name, a |-> a, b |-> b, p |-> 0]

\* DownloadFile's locals outside a download.
NoDownload == [total |-> 0, remaining |-> 0, chunk_id |-> 0, pos |-> 0, size |-> 0]

\* ------------------------------------------------------------ negotiation
\* What the handler learns before it connects.
FirstFrames == {"params", "malformed", "other"}
Lookups == {"inline", "found", "absent", "error"}
SshConnectResults == {"ok", "connect_failed", "auth_failed"}
ExitCodes == {0, 3}

\* SshConnectParams as far as the bridge reads it.
NoParams == [mode |-> "shell", hasCommand |-> FALSE, timeout_secs |-> 0]
SshParamChoices ==
    { [mode |-> "shell", hasCommand |-> FALSE, timeout_secs |-> 0] } \cup
    { [mode |-> "exec", hasCommand |-> c, timeout_secs |-> t] :
          c \in BOOLEAN, t \in 0..MaxTimeoutSecs }

\* What the handler has read on its way to the connect call: whether the
\* session named a user, the first frame, the registry lookup ("inline" when
\* the parameters carry no server_id), whether host, port, username and
\* password are all there.  "none" stands for a step the handler never took.
Nego(login, first, lookup, complete) ==
    [login |-> login, first |-> first, lookup |-> lookup, complete |-> complete,
     key |-> FALSE]
NoNego == Nego(FALSE, "none", "none", FALSE)

\* The steps are taken in order and a failing step ends the handler: the
\* first frame is read only with a user, the lookup is made only with
\* well-formed parameters, the fields are validated only with a host at hand.
Observes(login, first, lookup, complete) ==
    /\ (first = "none") <=> ~login
    /\ (lookup = "none") <=> ~(login /\ first = "params")
    /\ complete => lookup \in {"inline", "found"}

\* SftpConnectParams.private_key / Server.private_key: the request's only
\* credential is a private key, with host, port and username there (inline
\* or from the registry) and no password.  No handler reads the field, so
\* the parameters count as incomplete.
KeyOnly(key, lookup, complete) ==
    key => (lookup \in {"inline", "found"} /\ ~complete)

\* A handler that connects without validating the fields.
PreConnect_Unvalidated(login, first, lookup, complete) ==
    IF ~login THEN "not_logged_in"
    ELSE IF first = "other" THEN "silent"
    ELSE IF first = "malformed" THEN "bad_params"
    ELSE IF lookup = "absent" THEN "no_such_server"
    ELSE IF lookup = "error" THEN "lookup_failed"
    ELSE "connect"

\* handle_socket / handle_sftp_socket up to the connect call: the first
\* failing step decides how the handler leaves.  "silent" returns without a
\* frame, any other value but "connect" is the error sent before returning.
PreConnect(login, first, lookup, complete) ==
    IF ~login THEN "not_logged_in"
    ELSE IF first = "other" THEN "silent"
    ELSE IF first = "malformed" THEN "bad_params"
    ELSE IF lookup = "absent" THEN "no_such_server"
    ELSE IF lookup = "error" THEN "lookup_failed"
    ELSE IF ~complete THEN "missing_fields"
    ELSE "connect"

\* Session::connect_by_password: the handle exists once client::connect
\* returned; it is authenticated when authenticate_password succeeded.
SshAuthenticated(conn) == conn = "ok"

\* handle_socket, lines 62-119: identity, parameters, registry lookup,
\* validation.
SshNegotiate ==
    /\ kind = "ssh" /\ pc = "start"
    /\ \E login \in BOOLEAN, first \in FirstFrames \cup {"none"},
          lookup \in Lookups \cup {"none"}, complete \in BOOLEAN, key \in BOOLEAN,
          p \in SshParamChoices, ok \in SendOutcomes(ws) :
          LET pre == PreConnect(login, first, lookup, complete) IN
          /\ Observes(login, first, lookup, complete)
          /\ KeyOnly(key, lookup, complete)
          /\ nego' = [Nego(login, first, lookup, complete) EXCEPT !.key = key]
          /\ IF pre = "connect"
             THEN /\ pc' = "ssh_connect"
                  /\ params' = p
                  /\ UNCHANGED << ws, wsOut >>
             ELSE /\ pc' = "done"
                  /\ wsOut' = IF pre = "silent" THEN wsOut
                              ELSE Append(wsOut, ErrorFrame(pre, ok))
                  /\ ws' = WsAfterReturn(IF pre = "silent" THEN ws ELSE WsAfterSend(ws, ok))
                  /\ UNCHANGED params
    /\ UNCHANGED << kind, authed, guard, disconnects >>
    /\ UNCHANGED << execVars, loopVars, shellVars, sftpVars >>
    /\ UNCHANGED poolVars

\* handle_socket, lines 121-145: connect, guard.  Nothing after the connect
\* call reads what negotiation learnt of the caller and the host.
SshConnect ==
    /\ kind = "ssh" /\ pc = "ssh_connect"
    /\ \E conn \in SshConnectResults, ok \in SendOutcomes(ws) :
          IF conn = "ok"
          THEN /\ pc' = "ssh_channel"
               /\ authed' = SshAuthenticated(conn)
               /\ guard' = TRUE
               /\ UNCHANGED << ws, wsOut >>
          ELSE /\ pc' = "done"
               /\ wsOut' = Append(wsOut, ErrorFrame(conn, ok))
               /\ ws' = WsAfterReturn(WsAfterSend(ws, ok))
               /\ UNCHANGED << authed, guard >>
    /\ nego' = NoNego
    /\ UNCHANGED << kind, params, disconnects >>
    /\ UNCHANGED << execVars, loopVars, shellVars, sftpVars >>
    /\ UNCHANGED poolVars

\* handle_socket, lines 147-161: open the channel, dispatch on the mode.
SshOpenChannel ==
    /\ kind = "ssh" /\ pc = "ssh_channel"
    /\ \E opened \in BOOLEAN, ok \in SendOutcomes(ws) :
          IF ~opened
          THEN /\ wsOut' = Append(wsOut, ErrorFrame("channel_failed", ok))
               /\ ws' = WsAfterReturn(WsAfterSend(ws, ok))
               /\ pc' = "done"
               /\ disconnects' = disconnects + GuardDrop(guard)
               /\ guard' = FALSE
          ELSE /\ pc' = IF params.mode = "exec" THEN "exec_start" ELSE "shell_setup"
               /\ UNCHANGED << ws, wsOut, disconnects, guard >>
    /\ UNCHANGED << kind, authed, params >>
    /\ UNCHANGED << execVars, loopVars, shellVars, sftpVars >>
    /\ UNCHANGED << nego, poolVars >>


\* ------------------------------------------------------------- exec mode
\* Bytes a channel data event may carry: an ASCII byte, and either byte of
\* one two-byte UTF-8 character, which the backend may split over two events.
\* Events other than stdout carry the ASCII byte.
DataPayloads == { << "a" >>, << "C3" >>, << "A9" >> }

\* String::from_utf8_lossy: a well-formed sequence decodes to its character,
\* every ill-formed byte becomes U+FFFD.
RECURSIVE Utf8Lossy(_)
Utf8Lossy(bytes) ==
    IF bytes = << >> THEN << >>
    ELSE IF Head(bytes) = "a" THEN << "a" >> \o Utf8Lossy(Tail(bytes))
    ELSE IF Head(bytes) = "C3" /\ Len(bytes) >= 2 /\ bytes[2] = "A9"
         THEN << "e-acute" >> \o Utf8Lossy(Tail(Tail(bytes)))
    ELSE << "U+FFFD" >> \o Utf8Lossy(Tail(bytes))

\* How long the backend takes to deliver an event inside one channel wait,
\* and how long one socket.send takes, in ms.
EventDelays == {0, 75}
SendDelays == {0, 25}

\* Duration::from_secs(params.timeout_secs), in ms.
TimeoutDuration == params.timeout_secs * 1000

\* The clock of the model stops at a value no comparison of the loop can
\* tell from a later one.
ClockCap == MaxTimeoutSecs * 1000 + (MaxEvents + 4) * EXEC_POLL_MS
Tick(t, d) == Min(t + d, ClockCap)

\* A loop that never looks at the wall clock.
ExecTimedOut_Never == FALSE

\* handle_exec_mode, line 365: start_time.elapsed() >= timeout_duration
ExecTimedOut == elapsed >= TimeoutDuration

\* A channel wait bounded by twice the poll interval.
ExecPollBound_Long == 2 * EXEC_POLL_MS

\* handle_exec_mode, line 374: the bound of one channel.wait()
ExecPollBound == EXEC_POLL_MS

\* An exit-status arm that keeps the first status it saw.
RecordExit_First(c, status) == IF c = None THEN Some(status) ELSE c

\* handle_exec_mode, line 393: code = Some(exit_status)
RecordExit(c, status) == Some(status)

\* handle_exec_mode, lines 340-361: the command check and the exec request.
ExecStart ==
    /\ kind = "ssh" /\ pc = "exec_start"
    /\ \E accepted \in BOOLEAN, ok \in SendOutcomes(ws) :
          IF ~params.hasCommand \/ ~accepted
          THEN /\ wsOut' = Append(wsOut,
                     ErrorFrame(IF ~params.hasCommand THEN "missing_command"
                                ELSE "exec_failed", ok))
               /\ ws' = WsAfterReturn(WsAfterSend(ws, ok))
               /\ pc' = "done"
               /\ disconnects' = disconnects + GuardDrop(guard)
               /\ guard' = FALSE
          ELSE /\ pc' = "exec_loop"
               /\ UNCHANGED << ws, wsOut, disconnects, guard >>
    /\ UNCHANGED << kind, authed, params >>
    /\ UNCHANGED << execVars, loopVars, shellVars, sftpVars >>
    /\ UNCHANGED << nego, poolVars >>

\* A timeout branch that keeps an exit status it already has.
TimeoutCode_Keep(c) == IF c = None THEN Some(EXEC_TIMEOUT_CODE) ELSE c

\* handle_exec_mode, line 369: code = Some(124)
TimeoutCode(c) == Some(EXEC_TIMEOUT_CODE)

\* handle_exec_mode, lines 364-371: the wall-clock check at the top of the
\* loop finds the bound reached: notice to the client, code 124, break.
ExecTimeout ==
    /\ kind = "ssh" /\ pc = "exec_loop"
    /\ ExecTimedOut
    /\ \E ok \in SendOutcomes(ws), s \in SendDelays :
          /\ wsOut' = Append(wsOut, Frame("text", << "timeout_notice" >>, 0, 0, ok))
          /\ ws' = WsAfterSend(ws, ok)
          /\ elapsed' = Tick(elapsed, s)
          /\ sendTime' = Tick(sendTime, s)
    /\ code' = TimeoutCode(code)
    /\ endCause' = "timeout"
    /\ endAt' = elapsed
    /\ pc' = "exec_complete"
    /\ UNCHANGED << kind, authed, guard, disconnects, params, output, nEvents, seenExit >>
    /\ UNCHANGED << loopVars, shellVars, sftpVars >>
    /\ UNCHANGED << nego, poolVars >>

\* handle_exec_mode, lines 374 and 401-404: the channel wait runs into its
\* bound; continue.
ExecWaitElapsed ==
    /\ kind = "ssh" /\ pc = "exec_loop"
    /\ ~ExecTimedOut
    /\ elapsed' = Tick(elapsed, ExecPollBound)
    /\ UNCHANGED << kind, pc, ws, wsOut, authed, guard, disconnects, params, code,
                    output, sendTime, nEvents, endCause, endAt, seenExit >>
    /\ UNCHANGED << loopVars, shellVars, sftpVars >>
    /\ UNCHANGED << nego, poolVars >>

\* handle_exec_mode, lines 375-390: stdout data, or extended data of type
\* `ext`: stderr (1) is accumulated and streamed, anything else is skipped.
\* The events that carry output are logged as they came.  Standard output
\* brings the two halves of a two-byte character, the other streams a plain
\* letter.
ExecData ==
    /\ kind = "ssh" /\ pc = "exec_loop"
    /\ ~ExecTimedOut
    /\ nEvents < MaxEvents
    /\ \E d \in EventDelays, data \in DataPayloads, ext \in {0, 1, 2} :
          /\ d < ExecPollBound
          /\ ext # 0 <=> data = << "a" >>
          /\ IF ext \in {0, 1}
             THEN \E ok \in SendOutcomes(ws), s \in SendDelays :
                     /\ output' = output \o Utf8Lossy(data)
                     /\ wsOut' = Append(wsOut, Frame("text", Utf8Lossy(data), 0, 0, ok))
                     /\ ws' = WsAfterSend(ws, ok)
                     /\ elapsed' = Tick(elapsed, d + s)
                     /\ sendTime' = Tick(sendTime, s)
                     /\ chanIn' = Append(chanIn,
                            [ev |-> IF ext = 0 THEN "data" ELSE "extended", data |-> data])
             ELSE /\ elapsed' = Tick(elapsed, d)
                  /\ UNCHANGED << output, wsOut, ws, sendTime, chanIn >>
    /\ nEvents' = nEvents + 1
    /\ UNCHANGED << kind, pc, authed, guard, disconnects, params, code,
                    endCause, endAt, seenExit >>
    /\ UNCHANGED << lastInput, chanOut, lastFrame >>
    /\ UNCHANGED << loopVars, sftpVars >>
    /\ UNCHANGED << nego, poolVars >>

\* handle_exec_mode, lines 391-395: an exit-status event is recorded.
ExecExitStatus ==
    /\ kind = "ssh" /\ pc = "exec_loop"
    /\ ~ExecTimedOut
    /\ nEvents < MaxEvents
    /\ \E d \in EventDelays, status \in ExitCodes :
          /\ d < ExecPollBound
          /\ code' = RecordExit(code, status)
          /\ seenExit' = Append(seenExit, status)
          /\ elapsed' = Tick(elapsed, d)
    /\ nEvents' = nEvents + 1
    /\ UNCHANGED << kind, pc, ws, wsOut, authed, guard, disconnects, params,
                    output, sendTime, endCause, endAt >>
    /\ UNCHANGED << loopVars, shellVars, sftpVars >>
    /\ UNCHANGED << nego, poolVars >>

\* handle_exec_mode, line 405: any other channel message is skipped.
ExecOtherMsg ==
    /\ kind = "ssh" /\ pc = "exec_loop"
    /\ ~ExecTimedOut
    /\ nEvents < MaxEvents
    /\ \E d \in EventDelays :
          /\ d < ExecPollBound
          /\ elapsed' = Tick(elapsed, d)
    /\ nEvents' = nEvents + 1
    /\ UNCHANGED << kind, pc, ws, wsOut, authed, guard, disconnects, params, code,
                    output, sendTime, endCause, endAt, seenExit >>
    /\ UNCHANGED << loopVars, shellVars, sftpVars >>
    /\ UNCHANGED << nego, poolVars >>

\* handle_exec_mode, lines 396-400: end-of-stream, or the channel is gone
\* (wait returns None): break.
ExecStreamEnd ==
    /\ kind = "ssh" /\ pc = "exec_loop"
    /\ ~ExecTimedOut
    /\ \E d \in EventDelays, cause \in {"eof", "closed"} :
          /\ d < ExecPollBound
          /\ endCause' = cause
          /\ endAt' = Tick(elapsed, d)
          /\ elapsed' = Tick(elapsed, d)
    /\ pc' = "exec_complete"
    /\ UNCHANGED << kind, ws, wsOut, authed, guard, disconnects, params, code,
                    output, sendTime, nEvents, seenExit >>
    /\ UNCHANGED << loopVars, shellVars, sftpVars >>
    /\ UNCHANGED << nego, poolVars >>

\* handle_exec_mode, lines 409-418, and the return of handle_socket (line
\* 158): the completion message, socket.close(), the guard is dropped.
ExecComplete ==
    /\ kind = "ssh" /\ pc = "exec_complete"
    /\ \E ok \in SendOutcomes(ws) :
          wsOut' = Append(wsOut,
                     Frame("exec_complete", output, UnwrapOr(code, 0),
                           IF ExecTimedOut THEN 1 ELSE 0, ok))
    /\ ws' = WsAfterClose(ws)
    /\ pc' = "done"
    /\ disconnects' = disconnects + GuardDrop(guard)
    /\ guard' = FALSE
    /\ UNCHANGED << kind, authed, params >>
    /\ UNCHANGED << execVars, loopVars, shellVars, sftpVars >>
    /\ UNCHANGED << nego, poolVars >>

\* ---------------------------------------------------------- the loop clock
\* tokio::time::interval(30 s): the first tick is ready at once, each later
\* one a period after the one before.
TickReady == now >= nextTick

\* ---------------------------------------------------- terminal: shell mode
InputData == << "l", "s" >>
RawText == << "r", "a", "w" >>

\* A client text frame: the JSON of an input command carrying `data`, the
\* JSON of a resize command carrying `cols` and `rows`, or any other text.
ClientText(shape, data, cols, rows) ==
    [shape |-> shape, data |-> data, cols |-> cols, rows |-> rows]
NoText == ClientText("none", << >>, 0, 0)
ShellTexts ==
    { ClientText("input", InputData, 0, 0),
      ClientText("resize", << >>, 120, 40),
      ClientText("raw", RawText, 0, 0) }

\* A relay that ends raw input with a newline of its own.
TextBytes_Line(t) == t.data \o << "LF" >>

\* text.as_bytes(): the frame as it came, JSON envelope included.
TextBytes(t) ==
    IF t.shape = "raw" THEN t.data ELSE << "{", t.shape >> \o t.data \o << "}" >>

\* serde_json::from_str::<ClientCommand>(&text)
ParseClientCommand(t) == IF t.shape \in {"input", "resize"} THEN Some(t) ELSE None

\* A relay that writes the frame as it came.
InputBytes_Envelope(t, cmd) == TextBytes(t)

\* handle_socket, line 219: data.as_bytes() of ClientCommand::Input
InputBytes(t, cmd) == cmd.data

\* The client frame the relay loop took: its kind and, for a text frame,
\* the text.
ClientFrame(frame, t) == [frame |-> frame, text |-> IF frame = "text" THEN t ELSE NoText]
NoFrame == ClientFrame("none", NoText)
BinaryData == << "b", "i", "n" >>
\* "\x1b[5n", the device-status-report request
KeepaliveBytes == << "ESC", "[", "5", "n" >>

\* Bytes a channel data event carries in shell mode.
ShellPayloads == { << "a" >>, << "C3" >> }

ChanWrite(op, bytes) == [op |-> op, bytes |-> bytes, cols |-> 0, rows |-> 0]

\* channel.window_change(cols, rows, 0, 0)
WindowChange(cols, rows) == [op |-> "window_change", bytes |-> << >>, cols |-> cols, rows |-> rows]

\* A handler that takes the terminal for ready once it has its pty.
ShellReady_PtyOnly(pty, shell) == pty

\* handle_socket, lines 163-187: both request_pty and request_shell
\* answered Ok; either Err sends an error and returns.
ShellReady(pty, shell) == pty /\ shell

\* handle_socket, lines 162-204: pty, environment, shell, the connected
\* message, the activity stamp and the keep-alive interval.  The two
\* requests are logged with 1 for Ok and 0 for Err; the shell is requested
\* only with a pty.
ShellSetup ==
    /\ kind = "ssh" /\ pc = "shell_setup"
    /\ \E pty \in BOOLEAN, shell \in BOOLEAN, ok \in SendOutcomes(ws) :
          /\ remoteOps' = remoteOps \o
                (IF pty THEN << Op("request_pty", 1, 0),
                                Op("request_shell", IF shell THEN 1 ELSE 0, 0) >>
                 ELSE << Op("request_pty", 0, 0) >>)
          /\ IF ~ShellReady(pty, shell)
             THEN /\ wsOut' = Append(wsOut,
                        ErrorFrame(IF ~pty THEN "pty_failed" ELSE "shell_failed", ok))
                  /\ ws' = WsAfterReturn(WsAfterSend(ws, ok))
                  /\ pc' = "done"
                  /\ disconnects' = disconnects + GuardDrop(guard)
                  /\ guard' = FALSE
             ELSE /\ wsOut' = Append(wsOut, Frame("connected", << >>, 0, 0, ok))
                  /\ ws' = WsAfterSend(ws, ok)
                  /\ pc' = "shell_loop"
                  /\ UNCHANGED << disconnects, guard >>
    /\ lastInput' = now
    /\ nextTick' = now
    /\ UNCHANGED << kind, authed, params, nMsgs, now, nAdv, chanOut, lastFrame, chanIn >>
    /\ UNCHANGED << upload_state, files, buffer, dl, lastCmd, lastResult >>
    /\ UNCHANGED execVars
    /\ UNCHANGED << nego, poolVars >>

\* The relay loop is left: handle_socket returns, the guard is dropped.
ShellLeave ==
    /\ pc' = "done"
    /\ disconnects' = disconnects + GuardDrop(guard)
    /\ guard' = FALSE

\* A relay that goes on after it told the client the channel closed.
ShellAfterClosed_Stay == UNCHANGED << pc, disconnects, guard >>

\* handle_socket, line 279: `break` after the closed message.
ShellAfterClosed == ShellLeave

\* handle_socket, lines 209-253: the client branch of the select.
ShellClientFrame ==
    /\ kind = "ssh" /\ pc = "shell_loop"
    /\ nMsgs < MaxShellMsgs
    /\ nMsgs' = nMsgs + 1
    /\ \E frame \in {"text", "binary", "close", "gone", "ping"},
          text \in ShellTexts, written \in BOOLEAN :
          /\ frame \in {"text", "binary"} => ws = "open"
          /\ lastFrame' = ClientFrame(frame, text)
          /\ CASE frame \in {"text", "binary"} ->
                   LET cmd == IF frame = "text" THEN ParseClientCommand(text) ELSE None
                       bytes == IF frame = "binary" THEN BinaryData
                                ELSE IF cmd # None THEN InputBytes(text, Unwrap(cmd))
                                ELSE TextBytes(text)
                       resize == cmd # None /\ Unwrap(cmd).shape = "resize"
                   IN /\ lastInput' = now
                      /\ chanOut' = IF resize
                                    THEN Append(chanOut,
                                           WindowChange(Unwrap(cmd).cols, Unwrap(cmd).rows))
                                    ELSE IF written
                                    THEN Append(chanOut, ChanWrite("data", bytes))
                                    ELSE chanOut
                      /\ IF ~resize /\ ~written
                         THEN /\ ShellLeave
                              /\ ws' = WsAfterReturn(ws)
                         ELSE UNCHANGED << pc, disconnects, guard, ws >>
            [] frame \in {"close", "gone"} ->
                   /\ ShellLeave
                   /\ ws' = WsAfterReturn(ws)
                   /\ UNCHANGED << lastInput, chanOut >>
            [] OTHER ->
                   UNCHANGED << pc, disconnects, guard, ws, lastInput, chanOut >>
    /\ UNCHANGED << kind, wsOut, authed, params, now, nextTick, nAdv, chanIn >>
    /\ UNCHANGED << execVars, sftpVars >>
    /\ UNCHANGED << nego, poolVars >>

\* What channel.wait() handed to the loop.
ChanEvent(ev, data) == [ev |-> ev, data |-> IF ev \in {"data", "extended"} THEN data ELSE << >>]

\* The events of shell mode: output, error output, and the three that end
\* the relay (channel.wait() returning None is "closed").
ShellEvents ==
    { ChanEvent("data", << "a" >>), ChanEvent("extended", << "C3" >>) } \cup
    { ChanEvent(ev, << >>) : ev \in {"eof", "exit_status", "closed"} }

\* A relay that wraps channel bytes in a ServerMessage::Data text frame.
RelayFrame_Json(data, ok) == Frame("data", data, 0, 0, ok)

\* handle_socket, lines 257 and 266: Message::Binary(Bytes::copy_from_slice(data))
RelayFrame(data, ok) == Frame("binary", data, 0, 0, ok)

\* handle_socket, lines 255-286: the channel branch of the select.
ShellChannelEvent ==
    /\ kind = "ssh" /\ pc = "shell_loop"
    /\ \E e \in ShellEvents, ok \in SendOutcomes(ws) :
          LET ev == e.ev
              data == e.data
          IN
          /\ chanIn' = Append(chanIn, e)
          /\ IF ev \in {"data", "extended"}
             THEN /\ nEvents < MaxEvents
                  /\ nEvents' = nEvents + 1
                  /\ wsOut' = Append(wsOut, RelayFrame(data, ok))
                  /\ IF ok
                     THEN UNCHANGED << pc, disconnects, guard, ws >>
                     ELSE /\ ShellLeave
                          /\ ws' = WsAfterReturn(WsAfterSend(ws, ok))
             ELSE /\ wsOut' = Append(wsOut, Frame("closed", << >>, 0, 0, ok))
                  /\ ShellAfterClosed
                  /\ ws' = WsAfterReturn(WsAfterSend(ws, ok))
                  /\ UNCHANGED nEvents
    /\ UNCHANGED << kind, authed, params, nMsgs, now, nextTick, nAdv, lastInput, chanOut,
                    lastFrame >>
    /\ UNCHANGED << code, output, elapsed, sendTime, endCause, endAt, seenExit >>
    /\ UNCHANGED sftpVars
    /\ UNCHANGED << nego, poolVars >>

\* A keep-alive that fires after one idle timer period.
KeepaliveDue_Eager == now - lastInput >= TICK_SECS

\* handle_socket, line 291: last_user_activity.elapsed() > 50 s
KeepaliveDue == now - lastInput > KEEPALIVE_IDLE_SECS

\* handle_socket, lines 288-297: the keep-alive branch of the select.
ShellKeepalive ==
    /\ kind = "ssh" /\ pc = "shell_loop"
    /\ TickReady
    /\ nextTick' = nextTick + TICK_SECS
    /\ chanOut' = IF KeepaliveDue
                  THEN Append(chanOut, ChanWrite("data", KeepaliveBytes))
                  ELSE chanOut
    /\ UNCHANGED << kind, pc, ws, wsOut, authed, guard, disconnects, params,
                    nMsgs, now, nAdv, lastInput, lastFrame, chanIn >>
    /\ UNCHANGED << execVars, sftpVars >>
    /\ UNCHANGED << nego, poolVars >>

\* Time passes while the terminal loop waits in its select.
ShellAdvance ==
    /\ kind = "ssh" /\ pc = "shell_loop"
    /\ ~TickReady
    /\ nAdv < MaxShellAdvances
    /\ nAdv' = nAdv + 1
    /\ now' = now + TICK_SECS
    /\ UNCHANGED << kind, pc, ws, wsOut, authed, guard, disconnects, params,
                    nMsgs, nextTick, lastInput, chanOut, lastFrame, chanIn >>
    /\ UNCHANGED << execVars, sftpVars >>
    /\ UNCHANGED << nego, poolVars >>

\* ------------------------------------------------------- pooled buffers
\* A BytesMut: its length and its capacity.
Buf(len, cap) == [len |-> len, cap |-> cap]

\* BufferManager::create: BytesMut::zeroed(size)
ManagerCreate == Buf(POOL_BUFFER_SIZE, POOL_BUFFER_SIZE)

\* BytesMut::resize(new_len, 0): the length becomes new_len (grown with
\* zeros or truncated); the capacity grows only if it has to.
Resize(b, new_len) == Buf(new_len, IF b.cap < new_len THEN new_len ELSE b.cap)

\* BufferManager::recycle: obj.resize(self.size, 0)
ManagerRecycle(obj) == Resize(obj, POOL_BUFFER_SIZE)

\* BytesMut::clear on a pooled buffer (handle_sftp_socket, line 315).
Clear(b) == Buf(0, b.cap)

\* A pool built without its max_size.
PoolHasPermit_Unbounded == TRUE

\* Pool::get hands out an object only while fewer than max_size are out.
PoolHasPermit == BagCardinality(poolOut) < POOL_MAX_SIZE

\* ---------------------------------------------------------- file transfer
SftpConnectResults ==
    {"ok", "connect_failed", "auth_failed",
     "channel_failed", "subsystem_failed", "sftp_init_failed"}

\* SftpConnection::connect_by_password: Session::connect_by_password comes
\* first; the channel, the subsystem request and SftpSession::new follow on
\* the authenticated handle.
SftpAuthenticated(conn) == conn \notin {"connect_failed", "auth_failed"}

UploadPaths == {"/a", "/b"}
UploadTotals == {8}
ChunkSizes == {3, 5}
DownloadSizes == { k * CHUNK_SIZE + r : k \in 0..MaxChunks, r \in {0, 5} }
SimpleReplies == {"success", "file_attr"}

\* A remote write handle: russh_sftp::client::fs::File as the model sees it.
NewFile(path) ==
    [path |-> path, open |-> TRUE, closes |-> 0, flushed |-> FALSE,
     written |-> 0, timeouts |-> 0]

\* UploadState::new, and `state.file = Some(file)`.
NewUploadState(path, total_size, file) ==
    [path |-> path, total_size |-> total_size, received |-> 0,
     file |-> file, last_activity |-> now]

\* A reaper with twice the idle threshold.
IsTimeout_Lax(us) == now - us.last_activity > 2 * UPLOAD_IDLE_SECS

\* UploadState::is_timeout
IsTimeout(us) == now - us.last_activity > UPLOAD_IDLE_SECS

\* An upload state whose drop leaves the handle alone.
DropUpload_Leak(us, fs) == fs

\* impl Drop for UploadState, applied to an Option<UploadState>: the file
\* handle it owns is dropped, which closes it.
DropUpload(us, fs) ==
    IF us = None THEN fs
    ELSE [fs EXCEPT ![Unwrap(us).file].open = FALSE,
                    ![Unwrap(us).file].closes = @ + 1]

\* BytesMut::clear: the length becomes zero, the capacity stays.
BufferClear(buf) == IF buf = None THEN None ELSE Some(0)

\* BufferManager::create / recycle: a buffer leaves the pool with
\* length == size.
BufferCheckout == Some(POOL_BUFFER_SIZE)

\* AsyncReadExt::read into a slice of `len` bytes with `avail` bytes left in
\* the file: at most min(len, avail) bytes, possibly fewer, 0 only if that
\* minimum is 0.
ReadSizes(len, avail) ==
    IF Min(len, avail) = 0 THEN {0}
    ELSE {Min(len, avail)} \cup (IF Min(len, avail) > 1 THEN {1} ELSE {})

\* handle_sftp_socket, lines 205-263: identity, parameters, registry
\* lookup, validation.
SftpNegotiate ==
    /\ kind = "sftp" /\ pc = "start"
    /\ \E login \in BOOLEAN, first \in FirstFrames \cup {"none"},
          lookup \in Lookups \cup {"none"}, complete \in BOOLEAN, key \in BOOLEAN,
          ok \in SendOutcomes(ws) :
          LET pre == PreConnect(login, first, lookup, complete) IN
          /\ Observes(login, first, lookup, complete)
          /\ KeyOnly(key, lookup, complete)
          /\ nego' = [Nego(login, first, lookup, complete) EXCEPT !.key = key]
          /\ IF pre = "connect"
             THEN /\ pc' = "sftp_connect"
                  /\ UNCHANGED << ws, wsOut >>
             ELSE /\ pc' = "done"
                  /\ wsOut' = IF pre = "silent" THEN wsOut
                              ELSE Append(wsOut, ErrorFrame(pre, ok))
                  /\ ws' = WsAfterReturn(IF pre = "silent" THEN ws ELSE WsAfterSend(ws, ok))
    /\ UNCHANGED << kind, authed, guard, disconnects, params >>
    /\ UNCHANGED << execVars, loopVars, shellVars, sftpVars >>
    /\ UNCHANGED poolVars

\* handle_sftp_socket, lines 265-290: connect, guard.  Nothing after the
\* connect call reads what negotiation learnt of the caller and the host.
SftpConnect ==
    /\ kind = "sftp" /\ pc = "sftp_connect"
    /\ \E conn \in SftpConnectResults, ok \in SendOutcomes(ws) :
          IF conn = "ok"
          THEN /\ pc' = "sftp_setup"
               /\ authed' = SftpAuthenticated(conn)
               /\ guard' = TRUE
               /\ UNCHANGED << ws, wsOut >>
          ELSE /\ pc' = "done"
               /\ authed' = SftpAuthenticated(conn)
               /\ wsOut' = Append(wsOut, ErrorFrame(conn, ok))
               /\ ws' = WsAfterReturn(WsAfterSend(ws, ok))
               /\ UNCHANGED guard
    /\ nego' = NoNego
    /\ UNCHANGED << kind, disconnects, params >>
    /\ UNCHANGED << execVars, loopVars, shellVars, sftpVars >>
    /\ UNCHANGED poolVars

\* handle_sftp_socket, lines 294-305: the connected message, the empty
\* upload state, the interval.
SftpSetup ==
    /\ kind = "sftp" /\ pc = "sftp_setup"
    /\ \E ok \in SendOutcomes(ws) :
          /\ wsOut' = Append(wsOut, Frame("connected", << >>, 0, 0, ok))
          /\ ws' = WsAfterSend(ws, ok)
    /\ pc' = "sftp_checkout"
    /\ nextTick' = now
    /\ UNCHANGED << kind, authed, guard, disconnects, params, nMsgs, now, nAdv, upload_state,
                    files, buffer, dl, lastCmd, remoteOps, lastResult >>
    /\ UNCHANGED << execVars, shellVars >>
    /\ UNCHANGED << nego, poolVars >>

\* handle_sftp_socket, lines 306-312: state.buffer_pool.get().await.  The
\* call returns once the pool has a permit for this session; until then
\* the handler waits in it and polls nothing else.
SftpCheckout ==
    /\ kind = "sftp" /\ pc = "sftp_checkout"
    /\ PoolHasPermit
    /\ \E got \in BOOLEAN :
          IF got
          THEN /\ buffer' = BufferCheckout
               /\ pc' = "sftp_loop"
               /\ UNCHANGED << ws, wsOut, disconnects, guard >>
          ELSE \E ok2 \in SendOutcomes(ws) :
               /\ wsOut' = Append(wsOut, ErrorFrame("buffer_failed", ok2))
               /\ ws' = WsAfterReturn(WsAfterSend(ws, ok2))
               /\ pc' = "done"
               /\ disconnects' = disconnects + GuardDrop(guard)
               /\ guard' = FALSE
               /\ UNCHANGED buffer
    /\ UNCHANGED << kind, authed, params, nMsgs, now, nextTick, nAdv, upload_state, files, dl,
                    lastCmd, remoteOps, lastResult >>
    /\ UNCHANGED << execVars, shellVars >>
    /\ UNCHANGED << nego, poolVars >>

\* handle_sftp_socket, lines 344-357: what the dispatcher does with the
\* result of handle_sftp_command.  `ws1`, `out1`, `us1`, `fs1` are the
\* socket, the frames, the upload state and the handles as the command left
\* them.
AfterCommand(failed, why, ws1, out1, us1, fs1) ==
    IF failed
    THEN \E ok2 \in SendOutcomes(ws1) :
            /\ wsOut' = Append(out1, ErrorFrame(why, ok2))
            /\ ws' = WsAfterSend(ws1, ok2)
            /\ upload_state' = None
            /\ files' = DropUpload(us1, fs1)
            /\ lastResult' = "err"
    ELSE /\ wsOut' = out1
         /\ ws' = ws1
         /\ upload_state' = us1
         /\ files' = fs1
         /\ lastResult' = "ok"

\* A command frame is taken from the socket at the top of the loop (lines
\* 314-316, 331-343).
TakesCommand(cmd) ==
    /\ kind = "sftp" /\ pc = "sftp_loop"
    /\ ws = "open"
    /\ nMsgs < MaxMsgs
    /\ nMsgs' = nMsgs + 1
    /\ lastCmd' = cmd
    /\ buffer' = BufferClear(buffer)

\* handle_sftp_command: ListDir, DeleteFile, DeleteDir, CreateDir, Rename,
\* GetAttr: one remote operation, then one reply.
SftpSimpleCommand ==
    /\ TakesCommand("simple")
    /\ \E reply \in SimpleReplies, done \in BOOLEAN, ok \in SendOutcomes(ws) :
          IF ~done
          THEN AfterCommand(TRUE, "remote_failed", ws, wsOut, upload_state, files)
          ELSE AfterCommand(~ok, "send_failed", WsAfterSend(ws, ok),
                            Append(wsOut, Frame(reply, << >>, 0, 0, ok)),
                            upload_state, files)
    /\ remoteOps' = Append(remoteOps, Op("remote_op", 0, 0))
    /\ UNCHANGED << kind, pc, authed, guard, disconnects, params, now, nextTick, nAdv, dl >>
    /\ UNCHANGED << execVars, shellVars >>
    /\ UNCHANGED << nego, poolVars >>

\* handle_sftp_command, UploadFileStart (lines 540-586).
SftpUploadStart ==
    /\ TakesCommand("upload_file_start")
    /\ \E path \in UploadPaths, total_size \in UploadTotals,
          created \in BOOLEAN, ok \in SendOutcomes(ws) :
          IF upload_state # None
          THEN AfterCommand(TRUE, "upload_active", ws, wsOut, upload_state, files)
          ELSE IF ~created
          THEN AfterCommand(TRUE, "remote_failed", ws, wsOut, upload_state, files)
          ELSE AfterCommand(~ok, "send_failed", WsAfterSend(ws, ok),
                   Append(wsOut, Frame("success", << "upload_ready" >>, 0, 0, ok)),
                   Some(NewUploadState(path, total_size, Len(files) + 1)),
                   Append(files, NewFile(path)))
    /\ remoteOps' = IF upload_state # None THEN remoteOps
                    ELSE remoteOps \o << Op("metadata", 0, 0), Op("create", 0, 0) >>
    /\ UNCHANGED << kind, pc, authed, guard, disconnects, params, now, nextTick, nAdv, dl >>
    /\ UNCHANGED << execVars, shellVars >>
    /\ UNCHANGED << nego, poolVars >>

\* A take() that leaves the upload state where it was.
TakeUpload_Keep(us) == us

\* upload_state.take() (lines 589-590, 612): what the session's slot holds
\* afterwards.
TakeUpload(us) == None

\* handle_sftp_command, UploadFileEnd (lines 588-609): the state is taken
\* out of the session; it is dropped when the arm is left, however it is left.
SftpUploadEnd ==
    /\ TakesCommand("upload_file_end")
    /\ \E synced \in BOOLEAN, ok \in SendOutcomes(ws) :
          IF upload_state = None
          THEN AfterCommand(TRUE, "no_upload", ws, wsOut, TakeUpload(upload_state), files)
          ELSE IF ~synced
          THEN AfterCommand(TRUE, "remote_failed", ws, wsOut, TakeUpload(upload_state),
                            DropUpload(upload_state, files))
          ELSE AfterCommand(~ok, "send_failed", WsAfterSend(ws, ok),
                   Append(wsOut, Frame("success", << "upload_done" >>, 0, 0, ok)),
                   TakeUpload(upload_state),
                   DropUpload(upload_state,
                       [files EXCEPT ![Unwrap(upload_state).file].flushed = TRUE]))
    /\ remoteOps' = IF upload_state = None THEN remoteOps
                    ELSE Append(remoteOps, Op("sync_all", 0, 0))
    /\ UNCHANGED << kind, pc, authed, guard, disconnects, params, now, nextTick, nAdv, dl >>
    /\ UNCHANGED << execVars, shellVars >>
    /\ UNCHANGED << nego, poolVars >>

\* handle_sftp_command, UploadFileCancel (lines 611-628).
SftpUploadCancel ==
    /\ TakesCommand("upload_file_cancel")
    /\ \E ok \in SendOutcomes(ws) :
          AfterCommand(~ok, "send_failed", WsAfterSend(ws, ok),
              Append(wsOut, Frame("success", << "upload_cancelled" >>, 0, 0, ok)),
              TakeUpload(upload_state), DropUpload(upload_state, files))
    /\ UNCHANGED remoteOps
    /\ UNCHANGED << kind, pc, authed, guard, disconnects, params, now, nextTick, nAdv, dl >>
    /\ UNCHANGED << execVars, shellVars >>
    /\ UNCHANGED << nego, poolVars >>

\* Sizes of the local file an upload_local names.
LocalSizes == {0, 5}

\* Where an upload_local can fail: the local metadata (or a directory), the
\* local open, the remote create, a remote write, the final sync_all.
UploadLocalFailures == {"none", "local_metadata", "open", "create", "write_all", "sync_all"}

\* handle_sftp_command, UploadLocal, lines 762-789: the sizes of the chunks
\* the loop reads before a read returns 0, for a slice of `len` bytes and a
\* file with `avail` bytes left.  tokio::fs::File::read fills the slice as
\* far as the file goes.
RECURSIVE UploadLocalChunks(_, _)
UploadLocalChunks(len, avail) ==
    IF Min(len, avail) = 0 THEN << >>
    ELSE << Min(len, avail) >> \o UploadLocalChunks(len, avail - Min(len, avail))

\* `received` after the first i chunks (line 777).
RECURSIVE ReceivedAfter(_, _)
ReceivedAfter(chunks, i) ==
    IF i = 0 THEN 0 ELSE ReceivedAfter(chunks, i - 1) + chunks[i]

\* The slice upload_local reads into: buffer.as_mut() after buffer.clear()
\* (lines 763-765).
UploadLocalSliceLen == Unwrap(BufferClear(buffer))

\* handle_sftp_command, UploadLocal (lines 705-805).  The log keeps the
\* local file's length beside the remote requests.  `brk` is the first
\* progress message the socket refuses (the result of that send is ignored,
\* line 780).
SftpUploadLocal ==
    /\ TakesCommand("upload_local")
    /\ \E total_size \in LocalSizes, fail \in UploadLocalFailures :
       LET chunks == UploadLocalChunks(UploadLocalSliceLen, total_size)
           k == Len(chunks)
       IN \E brk \in {1, k + 1}, ok \in BOOLEAN :
          LET wrote == IF fail = "write_all" THEN 0 ELSE k
              writes == [ i \in 1..Min(wrote + 1, k) |->
                            Op("write_all", ReceivedAfter(chunks, i - 1), chunks[i]) ]
              progress == [ i \in 1..wrote |->
                              Frame("upload_progress", << >>, ReceivedAfter(chunks, i),
                                    total_size, i < brk) ]
              ws1 == IF brk <= wrote THEN "broken" ELSE ws
              out1 == wsOut \o progress
              ops == << Op("local_metadata", total_size, 0) >> \o
                     (IF fail = "local_metadata" THEN << >>
                      ELSE << Op("metadata", 0, 0) >> \o
                     (IF fail = "open" THEN << >>
                      ELSE << Op("create", 0, 0) >> \o
                     (IF fail = "create" THEN << >>
                      ELSE writes \o
                     (IF fail = "write_all" THEN << >>
                      ELSE << Op("sync_all", 0, 0) >>))))
          IN /\ (fail = "write_all" => k > 0)
             /\ ok \in SendOutcomes(ws1)
             /\ remoteOps' = remoteOps \o ops
             /\ IF fail \in {"local_metadata", "open", "create"}
                THEN AfterCommand(TRUE, "local_failed", ws, wsOut, upload_state, files)
                ELSE IF fail \in {"write_all", "sync_all"}
                THEN AfterCommand(TRUE, "remote_failed", ws1, out1, upload_state, files)
                ELSE AfterCommand(~ok, "send_failed", WsAfterSend(ws1, ok),
                         Append(out1, Frame("success", << "upload_local_done" >>, 0, 0, ok)),
                         upload_state, files)
    /\ UNCHANGED << kind, pc, authed, guard, disconnects, params, now, nextTick, nAdv, dl >>
    /\ UNCHANGED << execVars, shellVars >>
    /\ UNCHANGED << nego, poolVars >>

\* A handler that answers a stray chunk with an error message.
NoUploadReply_Error == << ErrorFrame("no_upload", TRUE) >>

\* handle_sftp_socket, lines 386-388: what is sent for a binary frame that
\* finds no upload: nothing, the frame is only logged.
NoUploadReply == << >>

\* A counter of chunks instead of bytes.
AdvanceReceived_Chunks(received, len) == received + 1

\* state.received += data.len() as u64 (line 368)
AdvanceReceived(received, len) == received + len

\* An upload whose chunks leave its activity timestamp alone.
UpdateActivity_Stale(last) == last

\* UploadState::update_activity: last_activity = Instant::now()
UpdateActivity(last) == now

\* handle_sftp_socket, Message::Binary (lines 362-389).  The write request
\* is logged with the offset it appends at and its size.
SftpBinary ==
    /\ TakesCommand("binary")
    /\ \E size \in ChunkSizes, written \in BOOLEAN, ok \in SendOutcomes(ws) :
          IF upload_state = None
          THEN /\ lastResult' = "ok"
               /\ wsOut' = wsOut \o NoUploadReply
               /\ UNCHANGED << ws, upload_state, files, remoteOps >>
          ELSE LET us == Unwrap(upload_state) IN
               /\ remoteOps' = Append(remoteOps, Op("write_all", us.received, size))
               /\ IF written
                  THEN /\ upload_state' =
                            Some([us EXCEPT !.received = AdvanceReceived(@, size),
                                            !.last_activity = UpdateActivity(@)])
                       /\ files' = [files EXCEPT ![us.file].written = @ + size]
                       /\ wsOut' = Append(wsOut,
                             Frame("upload_progress", << >>,
                                   AdvanceReceived(us.received, size), us.total_size, ok))
                       /\ ws' = WsAfterSend(ws, ok)
                       /\ lastResult' = "ok"
                  ELSE /\ wsOut' = Append(wsOut, ErrorFrame("write_failed", ok))
                       /\ ws' = WsAfterSend(ws, ok)
                       /\ upload_state' = None
                       /\ files' = DropUpload(upload_state, files)
                       /\ lastResult' = "err"
    /\ UNCHANGED << kind, pc, authed, guard, disconnects, params, now, nextTick, nAdv, dl >>
    /\ UNCHANGED << execVars, shellVars >>
    /\ UNCHANGED << nego, poolVars >>

\* handle_sftp_socket, lines 343 and 358-360, 398: a text frame that is no
\* command, or a ping/pong frame.
SftpIgnoredFrame ==
    /\ TakesCommand("ignored")
    /\ lastResult' = "ok"
    /\ UNCHANGED << kind, pc, ws, wsOut, authed, guard, disconnects, params,
                    now, nextTick, nAdv, upload_state, files, dl, remoteOps >>
    /\ UNCHANGED << execVars, shellVars >>
    /\ UNCHANGED << nego, poolVars >>

\* handle_sftp_socket, lines 317-329: the timer branch of the select.
SftpReaperTick ==
    /\ kind = "sftp" /\ pc = "sftp_loop"
    /\ TickReady
    /\ nextTick' = nextTick + TICK_SECS
    /\ buffer' = BufferClear(buffer)
    /\ IF upload_state # None /\ IsTimeout(Unwrap(upload_state))
       THEN \E ok \in SendOutcomes(ws) :
               /\ upload_state' = None
               /\ files' = [DropUpload(upload_state, files)
                              EXCEPT ![Unwrap(upload_state).file].timeouts = @ + 1]
               /\ wsOut' = Append(wsOut, ErrorFrame("upload_timeout", ok))
               /\ ws' = WsAfterSend(ws, ok)
       ELSE UNCHANGED << upload_state, files, wsOut, ws >>
    /\ UNCHANGED << kind, pc, authed, guard, disconnects, params, nMsgs, now, nAdv, dl,
                    lastCmd, remoteOps, lastResult >>
    /\ UNCHANGED << execVars, shellVars >>
    /\ UNCHANGED << nego, poolVars >>

\* Time passes while the file-transfer loop waits in its select: one timer
\* period at a time, and only while the socket has nothing to deliver (a
\* failed socket ends the wait at once).  Only an upload reads the clock, so
\* the clock starts to matter with the first upload.
SftpAdvance ==
    /\ kind = "sftp" /\ pc = "sftp_loop"
    /\ files # << >>
    /\ ~TickReady
    /\ ws = "open"
    /\ nAdv < MaxAdvances
    /\ nAdv' = nAdv + 1
    /\ now' = now + TICK_SECS
    /\ UNCHANGED << kind, pc, ws, wsOut, authed, guard, disconnects, params,
                    nMsgs, nextTick >>
    /\ UNCHANGED << execVars, shellVars, sftpVars >>
    /\ UNCHANGED << nego, poolVars >>

\* handle_sftp_socket, lines 331-339, 390-397 and 404-414: a close frame, a
\* receive error or the end of the stream leaves the loop; the upload state
\* is dropped and the closed message sent.
SftpLeave ==
    /\ kind = "sftp" /\ pc = "sftp_loop"
    /\ \E ok \in SendOutcomes(ws) :
          /\ wsOut' = Append(wsOut, Frame("closed", << >>, 0, 0, ok))
          /\ ws' = WsAfterSend(ws, ok)
    /\ upload_state' = None
    /\ files' = DropUpload(upload_state, files)
    /\ pc' = "sftp_return"
    /\ UNCHANGED << kind, authed, guard, disconnects, params, nMsgs, now, nextTick, nAdv,
                    buffer, dl, lastCmd, remoteOps, lastResult >>
    /\ UNCHANGED << execVars, shellVars >>
    /\ UNCHANGED << nego, poolVars >>

\* handle_sftp_socket, lines 416-418: the function returns, which gives the
\* buffer back and drops the guard and the socket.
SftpReturn ==
    /\ kind = "sftp" /\ pc = "sftp_return"
    /\ ws' = WsAfterReturn(ws)
    /\ buffer' = None
    /\ pc' = "done"
    /\ disconnects' = disconnects + GuardDrop(guard)
    /\ guard' = FALSE
    /\ UNCHANGED << kind, wsOut, authed, params, nMsgs, now, nextTick, nAdv,
                    upload_state, files, dl, lastCmd, remoteOps, lastResult >>
    /\ UNCHANGED << execVars, shellVars >>
    /\ UNCHANGED << nego, poolVars >>

\* The task panics: the stack unwinds (Rust's default panic strategy), every
\* local of handle_sftp_socket is dropped (buffer, upload state, guard,
\* socket).
SftpUnwind ==
    /\ pc' = "panicked"
    /\ lastResult' = "panic"
    /\ upload_state' = None
    /\ files' = DropUpload(upload_state, files)
    /\ buffer' = None
    /\ disconnects' = disconnects + GuardDrop(guard)
    /\ guard' = FALSE

\* handle_sftp_command, DownloadFile (lines 468-487): metadata, the
\* download_start message, open, the loop's locals.
SftpDownloadStart ==
    /\ TakesCommand("download_file")
    /\ \E size \in DownloadSizes, meta \in BOOLEAN, opened \in BOOLEAN,
          ok \in SendOutcomes(ws) :
          LET out1 == Append(wsOut, Frame("download_start", << >>, size, 0, ok))
              ws1 == WsAfterSend(ws, ok)
          IN IF ~meta
             THEN /\ AfterCommand(TRUE, "remote_failed", ws, wsOut, upload_state, files)
                  /\ remoteOps' = Append(remoteOps, Op("metadata", 0, 0))
                  /\ UNCHANGED << pc, dl >>
             ELSE IF ~ok \/ ~opened
             THEN /\ AfterCommand(TRUE, IF ~ok THEN "send_failed" ELSE "remote_failed",
                                  ws1, out1, upload_state, files)
                  /\ remoteOps' = IF ~ok THEN Append(remoteOps, Op("metadata", 0, 0))
                                  ELSE remoteOps \o << Op("metadata", 0, 0), Op("open", 0, 0) >>
                  /\ UNCHANGED << pc, dl >>
             ELSE /\ AfterCommand(FALSE, "", ws1, out1, upload_state, files)
                  /\ remoteOps' = remoteOps \o << Op("metadata", 0, 0), Op("open", 0, 0) >>
                  /\ pc' = "sftp_download"
                  /\ dl' = [total |-> size, remaining |-> size, chunk_id |-> 0,
                            pos |-> 0, size |-> size]
    /\ UNCHANGED << kind, authed, guard, disconnects, params, now, nextTick, nAdv >>
    /\ UNCHANGED << execVars, shellVars >>
    /\ UNCHANGED << nego, poolVars >>

\* The slice the download reads into: buffer.as_mut() after buffer.clear()
\* (line 490).
DownloadSliceLen == Unwrap(BufferClear(buffer))

\* handle_sftp_command, DownloadFile, one turn of the loop (lines 489-528)
\* and, when the loop is left, the download_end message (lines 530-537).
SftpDownloadChunk ==
    /\ kind = "sftp" /\ pc = "sftp_download"
    /\ LET len == DownloadSliceLen
           avail == dl.size - dl.pos
           exact == dl.remaining >= CHUNK_SIZE
       IN \E read \in BOOLEAN, r \in ReadSizes(len, avail) :
          LET \* read_exact fills the slice or fails with UnexpectedEof after
              \* consuming what was left; the fallback read then finds nothing.
              n == IF exact THEN (IF avail >= len THEN CHUNK_SIZE ELSE 0) ELSE r
              pos1 == IF exact THEN (IF avail >= len THEN dl.pos + len ELSE dl.size)
                      ELSE dl.pos + r
          IN /\ (exact => r = Min(len, avail))
             /\ IF ~read
                THEN /\ AfterCommand(TRUE, "remote_failed", ws, wsOut, upload_state, files)
                     /\ pc' = "sftp_loop" /\ dl' = NoDownload
                     /\ buffer' = BufferClear(buffer)
                     /\ UNCHANGED << disconnects, guard >>
                ELSE IF n = 0
                THEN \E ok \in SendOutcomes(ws) :
                     /\ AfterCommand(~ok, "send_failed", WsAfterSend(ws, ok),
                            Append(wsOut, Frame("download_end", << >>, 0, 0, ok)),
                            upload_state, files)
                     /\ pc' = "sftp_loop" /\ dl' = NoDownload
                     /\ buffer' = BufferClear(buffer)
                     /\ UNCHANGED << disconnects, guard >>
                ELSE \E ok \in SendOutcomes(ws) :
                     LET out1 == Append(wsOut,
                                   Frame("download_chunk", << >>, dl.chunk_id, n, ok))
                         ws1 == WsAfterSend(ws, ok)
                     IN IF ~ok
                        THEN /\ AfterCommand(TRUE, "send_failed", ws1, out1,
                                             upload_state, files)
                             /\ pc' = "sftp_loop" /\ dl' = NoDownload
                             /\ buffer' = BufferClear(buffer)
                             /\ UNCHANGED << disconnects, guard >>
                        ELSE IF n > len
                        THEN \* buffer[..n] past the slice's length
                             /\ SftpUnwind
                             /\ wsOut' = out1
                             /\ ws' = WsAfterReturn(ws1)
                             /\ dl' = NoDownload
                        ELSE \E ok2 \in SendOutcomes(ws1) :
                             /\ AfterCommand(~ok2, "send_failed", WsAfterSend(ws1, ok2),
                                    Append(out1, Frame("binary", << >>, dl.pos, n, ok2)),
                                    upload_state, files)
                             /\ pc' = IF ok2 THEN "sftp_download" ELSE "sftp_loop"
                             /\ dl' = IF ok2
                                      THEN [dl EXCEPT !.remaining = IF @ >= n THEN @ - n ELSE 0,
                                                      !.chunk_id = @ + 1,
                                                      !.pos = pos1]
                                      ELSE NoDownload
                             /\ buffer' = BufferClear(buffer)
                             /\ UNCHANGED << disconnects, guard >>
    /\ remoteOps' = Append(remoteOps, Op("read", 0, 0))
    /\ UNCHANGED << kind, authed, params, nMsgs, now, nextTick, nAdv, lastCmd >>
    /\ UNCHANGED << execVars, shellVars >>
    /\ UNCHANGED << nego, poolVars >>

\* -------------------------------------------------------- the buffer pool
\* Concurrent file-transfer sessions share one deadpool managed::Pool of
\* BytesMut (util/mod.rs: BufferPool).  A session is counted, not named:
\* it is inside get(), or it holds a buffer, or it has returned.

\* handle_sftp_socket, line 306: a session calls buffer_pool.get().
PoolArrive ==
    /\ poolWaiters + BagCardinality(poolOut) < MaxSessions
    /\ poolWaiters' = poolWaiters + 1
    /\ UNCHANGED << poolOut, poolIdle, poolCreated, lastRecycled >>
    /\ UNCHANGED connVars

\* get() returns: the oldest idle buffer, recycled, or else a new one.
PoolCheckout ==
    /\ poolWaiters > 0
    /\ PoolHasPermit
    /\ poolWaiters' = poolWaiters - 1
    /\ IF poolIdle # << >>
       THEN /\ poolOut' = poolOut (+) SetToBag({ManagerRecycle(Head(poolIdle))})
            /\ poolIdle' = Tail(poolIdle)
            /\ lastRecycled' = Some(ManagerRecycle(Head(poolIdle)))
            /\ UNCHANGED poolCreated
       ELSE /\ poolOut' = poolOut (+) SetToBag({ManagerCreate})
            /\ poolCreated' = poolCreated + 1
            /\ UNCHANGED << poolIdle, lastRecycled >>
    /\ UNCHANGED connVars

\* handle_sftp_socket, line 315: the session's loop clears its buffer.
PoolSessionClear ==
    /\ \E b \in BagToSet(poolOut) :
          /\ b.len # 0
          /\ poolOut' = (poolOut (-) SetToBag({b})) (+) SetToBag({Clear(b)})
    /\ UNCHANGED << poolIdle, poolWaiters, poolCreated, lastRecycled >>
    /\ UNCHANGED connVars

\* handle_sftp_socket returns (line 418): the Object is dropped and goes
\* back to the pool as it is.  The loop has cleared it at least once.
PoolRelease ==
    /\ \E b \in BagToSet(poolOut) :
          /\ b.len = 0
          /\ poolOut' = poolOut (-) SetToBag({b})
          /\ poolIdle' = Append(poolIdle, b)
    /\ UNCHANGED << poolWaiters, poolCreated, lastRecycled >>
    /\ UNCHANGED connVars

\* ------------------------------------------------------- specification
\* The state of a connection's task when the handler is entered.
FreshConn ==
    /\ pc = "start"
    /\ ws = "open"
    /\ wsOut = << >>
    /\ authed = FALSE
    /\ guard = FALSE
    /\ disconnects = 0
    /\ params = NoParams
    /\ code = None
    /\ output = << >>
    /\ elapsed = 0
    /\ sendTime = 0
    /\ nEvents = 0
    /\ endCause = "none"
    /\ endAt = 0
    /\ seenExit = << >>
    /\ nMsgs = 0
    /\ now = 0
    /\ nextTick = 0
    /\ nAdv = 0
    /\ lastInput = 0
    /\ chanOut = << >>
    /\ lastFrame = NoFrame
    /\ chanIn = << >>
    /\ upload_state = None
    /\ files = << >>
    /\ buffer = None
    /\ dl = NoDownload
    /\ lastCmd = "none"
    /\ remoteOps = << >>
    /\ lastResult = "none"
    /\ nego = NoNego

\* A connection arrives at a pool nobody has used yet.
Fresh ==
    /\ FreshConn
    /\ poolOut = EmptyBag
    /\ poolIdle = << >>
    /\ poolWaiters = 0
    /\ poolCreated = 0
    /\ lastRecycled = None

Init == kind \in {"ssh", "sftp"} /\ Fresh
SshInit == kind = "ssh" /\ Fresh
SftpInit == kind = "sftp" /\ Fresh

\* The terminal gateway: negotiation, exec mode, shell mode.
SshNext ==
    \/ SshNegotiate
    \/ SshConnect
    \/ SshOpenChannel
    \/ ExecStart
    \/ ExecTimeout
    \/ ExecWaitElapsed
    \/ ExecData
    \/ ExecExitStatus
    \/ ExecOtherMsg
    \/ ExecStreamEnd
    \/ ExecComplete
    \/ ShellSetup
    \/ ShellClientFrame
    \/ ShellChannelEvent
    \/ ShellKeepalive
    \/ ShellAdvance

\* u32 `&` and `|`, bit by bit.
RECURSIVE BitAnd(_, _)
BitAnd(x, y) ==
    IF x = 0 \/ y = 0 THEN 0
    ELSE (x % 2) * (y % 2) + 2 * BitAnd(x \div 2, y \div 2)

RECURSIVE BitOr(_, _)
BitOr(x, y) ==
    IF x = 0 THEN y
    ELSE IF y = 0 THEN x
    ELSE (IF x % 2 = 1 \/ y % 2 = 1 THEN 1 ELSE 0) + 2 * BitOr(x \div 2, y \div 2)

\* The `permissions` a metadata reply may carry: none, a regular file
\* (0o100644), a sticky directory (0o41777).
MetadataPermissions == { None, Some(33188), Some(17407) }

\* The `permissions` a set_permissions command may ask for: 0o644, 0o4755.
RequestedPermissions == { 420, 2541 }

\* handle_sftp_command, SetPermissions, line 853: the mode written back.
NewPerms(current_perms, permissions) ==
    BitOr(BitAnd(current_perms, S_IFMT), BitAnd(permissions, PERM_MASK))

\* The set_metadata request of line 873, with the mode the file had, the
\* mode the command asked for and the mode written.
SetMetadataOp(current_perms, permissions) ==
    [Op("set_metadata", current_perms, NewPerms(current_perms, permissions))
        EXCEPT !.p = permissions]

\* handle_sftp_command, SetPermissions (lines 844-885).
SftpSetPermissions ==
    /\ TakesCommand("set_permissions")
    /\ \E permissions \in RequestedPermissions, attrs \in BOOLEAN,
          perm \in MetadataPermissions, written \in BOOLEAN, ok \in SendOutcomes(ws) :
          LET current_perms == UnwrapOr(perm, 0) IN
          IF ~attrs
          THEN /\ perm = None /\ ~written
               /\ AfterCommand(TRUE, "remote_failed", ws, wsOut, upload_state, files)
               /\ remoteOps' = Append(remoteOps, Op("metadata", 0, 0))
          ELSE /\ remoteOps' = remoteOps \o << Op("metadata", 0, 0),
                                               SetMetadataOp(current_perms, permissions) >>
               /\ IF ~written
                  THEN AfterCommand(TRUE, "remote_failed", ws, wsOut, upload_state, files)
                  ELSE AfterCommand(~ok, "send_failed", WsAfterSend(ws, ok),
                                    Append(wsOut, Frame("success", << >>, permissions, 0, ok)),
                                    upload_state, files)
    /\ UNCHANGED << kind, pc, authed, guard, disconnects, params, now, nextTick, nAdv, dl >>
    /\ UNCHANGED << execVars, shellVars >>
    /\ UNCHANGED << nego, poolVars >>

\* The `size` a metadata reply may carry: none, the limit, one byte more.
MetadataSizes == { None, Some(MAX_CONTENT_SIZE), Some(MAX_CONTENT_SIZE + 1) }

\* A size check that also turns away a file of exactly the limit.
TooLarge_Inclusive(size) == size >= MAX_CONTENT_SIZE

\* handle_sftp_command, ReadFileContent, line 812.
TooLarge(size) == size > MAX_CONTENT_SIZE

\* handle_sftp_command, ReadFileContent (lines 806-826).
SftpReadFileContent ==
    /\ TakesCommand("read_file_content")
    /\ \E metadata \in BOOLEAN, sz \in MetadataSizes, opened \in BOOLEAN,
          read \in BOOLEAN, ok \in SendOutcomes(ws) :
          LET size == UnwrapOr(sz, 0) IN
          IF ~metadata
          THEN /\ sz = None /\ ~opened /\ ~read
               /\ AfterCommand(TRUE, "remote_failed", ws, wsOut, upload_state, files)
               /\ remoteOps' = Append(remoteOps, Op("metadata", 0, 0))
          ELSE IF TooLarge(size)
          THEN /\ ~opened /\ ~read
               /\ AfterCommand(TRUE, "too_large", ws, wsOut, upload_state, files)
               /\ remoteOps' = Append(remoteOps, Op("metadata", size, 0))
          ELSE IF ~opened
          THEN /\ ~read
               /\ AfterCommand(TRUE, "remote_failed", ws, wsOut, upload_state, files)
               /\ remoteOps' = remoteOps \o << Op("metadata", size, 0), Op("open", 0, 0) >>
          ELSE /\ remoteOps' = remoteOps \o << Op("metadata", size, 0), Op("open", 0, 0),
                                               Op("read_to_string", 0, 0) >>
               /\ IF ~read
                  THEN AfterCommand(TRUE, "remote_failed", ws, wsOut, upload_state, files)
                  ELSE AfterCommand(~ok, "send_failed", WsAfterSend(ws, ok),
                                    Append(wsOut, Frame("file_content", << >>, size, 0, ok)),
                                    upload_state, files)
    /\ UNCHANGED << kind, pc, authed, guard, disconnects, params, now, nextTick, nAdv, dl >>
    /\ UNCHANGED << execVars, shellVars >>
    /\ UNCHANGED << nego, poolVars >>

\* The file-transfer gateway: negotiation and the command loop.
SftpNext ==
    \/ SftpNegotiate
    \/ SftpConnect
    \/ SftpSetup
    \/ SftpCheckout
    \/ SftpSimpleCommand
    \/ SftpUploadStart
    \/ SftpUploadEnd
    \/ SftpUploadCancel
    \/ SftpUploadLocal
    \/ SftpBinary
    \/ SftpIgnoredFrame
    \/ SftpReaperTick
    \/ SftpAdvance
    \/ SftpLeave
    \/ SftpReturn
    \/ SftpDownloadStart
    \/ SftpDownloadChunk
    \/ SftpSetPermissions
    \/ SftpReadFileContent

Next == SshNext \/ SftpNext

\* Either gateway.
Spec == Init /\ [][Next]_vars
\* The terminal gateway alone.
SshSpec == SshInit /\ [][SshNext]_vars
\* The file-transfer gateway alone.
SftpSpec == SftpInit /\ [][SftpNext]_vars

\* The sessions of the file-transfer gateway and the pool they share.
PoolNext ==
    \/ PoolArrive
    \/ PoolCheckout
    \/ PoolSessionClear
    \/ PoolRelease

PoolSpec == SftpInit /\ [][PoolNext]_vars

\* The exec poll loop under the scheduling the runtime gives it: a bounded
\* channel wait ends, and the task then runs its next statement (a send to
\* the client is taken to complete).
ExecLiveSpec ==
    /\ SshInit /\ [][SshNext]_vars
    /\ WF_vars(ExecWaitElapsed)
    /\ WF_vars(ExecTimeout)
    /\ WF_vars(ExecComplete)

\* The client goes away while a handler serves it: from then on every send
\* fails and every receive reports an error or the end of the stream.
ClientGone ==
    /\ ws = "open"
    /\ pc \notin {"done", "panicked"}
    /\ ws' = "broken"
    /\ UNCHANGED << kind, pc, wsOut, authed, guard, disconnects, params >>
    /\ UNCHANGED << execVars, loopVars, shellVars, sftpVars >>
    /\ UNCHANGED << nego, poolVars >>

\* A file-transfer session that starts while other sessions hold `n` of the
\* pool's buffers and keep them.
OthersHold(n) ==
    /\ kind = "sftp"
    /\ FreshConn
    /\ poolOut = [b \in {ManagerCreate} |-> n]
    /\ poolIdle = << >> /\ poolWaiters = 0 /\ poolCreated = n /\ lastRecycled = None

\* A close that gives up at the first sub-step that fails.
Close_Propagate(sftp_closed, disconnected) ==
    IF ~sftp_closed
    THEN << Op("sftp_close", 0, 0), Op("close_returned", 0, 0) >>
    ELSE << Op("sftp_close", 1, 0), Op("disconnect", IF disconnected THEN 1 ELSE 0, 0),
            Op("close_returned", IF disconnected THEN 1 ELSE 0, 0) >>

\* SftpConnection::close (sftp/session.rs, lines 97-112): the requests it
\* makes, each with 1 for Ok and 0 for Err, and last what it returns.
Close(sftp_closed, disconnected) ==
    << Op("sftp_close", IF sftp_closed THEN 1 ELSE 0, 0),
       Op("disconnect", IF disconnected THEN 1 ELSE 0, 0),
       Op("close_returned", 1, 0) >>

\* impl Drop for SftpConnectionGuard, lines 189-195: the task the drop
\* spawned runs conn.close() on the runtime.
SftpCloseTask ==
    /\ kind = "sftp"
    /\ Cardinality({ i \in 1..Len(remoteOps) : remoteOps[i].op = "close_returned" })
          < disconnects
    /\ \E sftp_closed \in BOOLEAN, disconnected \in BOOLEAN :
          remoteOps' = remoteOps \o Close(sftp_closed, disconnected)
    /\ UNCHANGED << kind, pc, ws, wsOut, authed, guard, disconnects, params,
                    upload_state, files, buffer, dl, lastCmd, lastResult >>
    /\ UNCHANGED << execVars, loopVars, shellVars >>
    /\ UNCHANGED << nego, poolVars >>

\* The life of a connection guard: a file-transfer session from its first
\* frame to every place where the guard is dropped (the failed checkout, the
\* return, the unwinding of a download), and the close task.
GuardNext ==
    \/ SftpNegotiate
    \/ SftpConnect
    \/ SftpSetup
    \/ SftpCheckout
    \/ SftpSimpleCommand
    \/ SftpDownloadStart
    \/ SftpDownloadChunk
    \/ SftpLeave
    \/ SftpReturn
    \/ SftpCloseTask
GuardSpec == SftpInit /\ [][GuardNext]_vars

\* A file-transfer session whose client may go away at any moment, beside
\* other sessions that hold none or all of the pool's buffers.  The
\* session's task is scheduled whenever it can take a step.
CloseLiveNext == SftpNext \/ ClientGone
CloseLiveSpec ==
    /\ ((Fresh /\ kind = "sftp") \/ OthersHold(POOL_MAX_SIZE))
    /\ [][CloseLiveNext]_vars
    /\ WF_vars(SftpNext)

\* A file-transfer session that arrives while other sessions hold every
\* buffer of the pool: poolOut is what the others hold, and each of them ends
\* in its own time, clearing its buffer in its loop and giving it back when
\* its handler returns.
PoolWaitNext ==
    \/ SftpNegotiate
    \/ SftpConnect
    \/ SftpSetup
    \/ SftpCheckout
    \/ SftpSimpleCommand
    \/ SftpLeave
    \/ SftpReturn
    \/ PoolSessionClear
    \/ PoolRelease
PoolWaitSpec == OthersHold(POOL_MAX_SIZE) /\ [][PoolWaitNext]_vars

\* ------------------------------------------------------------- properties
\* Reading the frame log.
Last(seq) == seq[Len(seq)]
LastIs(type) == Len(wsOut) > 0 /\ wsOut[Len(wsOut)].type = type
Max(S) == CHOOSE x \in S : \A y \in S : y <= x

\* The handler has returned (or its task has died).
Returned == pc \in {"done", "panicked"}

\* An exec-mode session whose exec request was accepted has returned.
ExecDone == kind = "ssh" /\ pc = "done" /\ endCause # "none"

\* C1: every connection whose backend connect and authentication succeeded
\* has had the disconnect of its backend handle initiated exactly once by the
\* time its handler has returned, whatever the exit path; no handle is
\* disconnected twice.
C1_DisconnectOnEveryExit ==
    /\ disconnects <= 1
    /\ (Returned /\ authed) => disconnects = 1

\* C2: an upload_file_start taken while an upload is active is answered with
\* the conflict error, and the upload state and its handle stay as they were.
C2_ConflictKeepsUpload ==
    [][ (nMsgs' # nMsgs /\ lastCmd' = "upload_file_start" /\ upload_state # None)
           => /\ Len(wsOut') = Len(wsOut) + 1
              /\ Last(wsOut').type = "error"
              /\ Last(wsOut').info = << "upload_active" >>
              /\ upload_state' = upload_state
              /\ files' = files ]_vars

\* C3: once an upload_file_end or upload_file_cancel has returned, no upload
\* state is left and no upload handle is open: the handle of the upload that
\* was active has been closed, exactly once, also when the flush or the
\* acknowledgement failed.  No handle is ever closed twice.
C3_EndCancelRelease ==
    /\ \A h \in 1..Len(files) :
          files[h].closes <= 1 /\ (files[h].open <=> files[h].closes = 0)
    /\ lastCmd \in {"upload_file_end", "upload_file_cancel"}
          => /\ upload_state = None
             /\ \A h \in 1..Len(files) : ~files[h].open /\ files[h].closes = 1

\* C3's case: upload_file_end on an active upload whose flush failed.
C3_Witness ==
    /\ lastCmd = "upload_file_end" /\ pc = "sftp_loop"
    /\ Len(files) = 1 /\ files[1].timeouts = 0
    /\ files[1].closes = 1 /\ ~files[1].flushed
    /\ LastIs("error") /\ Last(wsOut).info = << "remote_failed" >>

\* The frames of the most recent download, from its download_start on.
DownloadStarts == { i \in 1..Len(wsOut) : wsOut[i].type = "download_start" }
DownloadFrames ==
    IF DownloadStarts = {} THEN << >>
    ELSE SubSeq(wsOut, Max(DownloadStarts), Len(wsOut))

\* The bytes carried by the frames of kind `type` among `fr`.
RECURSIVE FrameBytes(_, _)
FrameBytes(fr, type) ==
    IF fr = << >> THEN 0
    ELSE (IF Head(fr).type = type THEN Head(fr).b ELSE 0) + FrameBytes(Tail(fr), type)

\* Each binary frame among `fr` carries the file's bytes from offset `at` on.
RECURSIVE Contiguous(_, _)
Contiguous(fr, at) ==
    IF fr = << >> THEN TRUE
    ELSE IF Head(fr).type = "binary"
         THEN Head(fr).a = at /\ Contiguous(Tail(fr), at + Head(fr).b)
         ELSE Contiguous(Tail(fr), at)

\* C4: when a download has completed with download_end, its binary frames,
\* in order, are the file from its first byte to its last: their sizes add
\* up to the size download_start announced, and so do the sizes the chunk
\* headers declare.
C4_DownloadIsWholeFile ==
    (DownloadFrames # << >> /\ LastIs("download_end") /\ Last(wsOut).ok)
       => /\ Contiguous(DownloadFrames, 0)
          /\ FrameBytes(DownloadFrames, "binary") = DownloadFrames[1].a
          /\ FrameBytes(DownloadFrames, "download_chunk") = DownloadFrames[1].a

\* C5: in the frames of a download every chunk header the client received is
\* directly followed by one binary frame of exactly the declared size, the
\* chunk ids count from 0 in steps of 1, and every header, binary frame and
\* download_end comes after a download_start.
C5_DownloadFraming ==
    \A i \in 1..Len(wsOut) :
       /\ wsOut[i].type \in {"download_chunk", "binary", "download_end"}
             => \E j \in DownloadStarts : j < i
       /\ wsOut[i].type = "download_chunk"
             => wsOut[i].a = Cardinality({ k \in 1..(i - 1) :
                                 /\ wsOut[k].type = "download_chunk"
                                 /\ \A j \in DownloadStarts : j < i => j < k })
       /\ (wsOut[i].type = "download_chunk" /\ wsOut[i].ok)
             => /\ i < Len(wsOut)
                /\ wsOut[i + 1].type = "binary"
                /\ wsOut[i + 1].b = wsOut[i].b

\* The upload-timeout errors among `out`.
TimeoutErrors(out) ==
    Cardinality({ i \in 1..Len(out) :
                    out[i].type = "error" /\ out[i].info = << "upload_timeout" >> })

\* C6: when the periodic timer fires on an upload that has had no chunk, end
\* or cancel for more than 300 s, the reaper closes its handle, removes the
\* upload state and sends one timeout error; a tick that finds no such upload
\* sends nothing and changes nothing.  No upload gets a second timeout error.
C6_ReaperDiscardsIdleUpload ==
    /\ [](/\ \A h \in 1..Len(files) :
                files[h].timeouts <= 1 /\ (files[h].timeouts = 1 => ~files[h].open)
          /\ TimeoutErrors(wsOut)
               = Cardinality({ h \in 1..Len(files) : files[h].timeouts = 1 }))
    /\ [][ (pc = "sftp_loop" /\ nextTick' # nextTick)
             => IF /\ upload_state # None
                   /\ now - Unwrap(upload_state).last_activity > UPLOAD_IDLE_SECS
                THEN /\ upload_state' = None
                     /\ ~files'[Unwrap(upload_state).file].open
                     /\ files'[Unwrap(upload_state).file].closes = 1
                     /\ files'[Unwrap(upload_state).file].timeouts = 1
                     /\ Len(wsOut') = Len(wsOut) + 1
                     /\ TimeoutErrors(wsOut') = TimeoutErrors(wsOut) + 1
                ELSE /\ wsOut' = wsOut
                     /\ upload_state' = upload_state
                     /\ files' = files ]_vars

\* C6's case: an upload started at 0 s and left alone was reaped by the tick
\* at 330 s, and the tick at 360 s has fired since.
C6_Witness ==
    /\ pc = "sftp_loop" /\ nMsgs = 1 /\ lastCmd = "upload_file_start"
    /\ Len(files) = 1 /\ files[1].timeouts = 1 /\ upload_state = None
    /\ now = 12 * TICK_SECS /\ nextTick = 13 * TICK_SECS
    /\ TimeoutErrors(wsOut) = 1

\* End-of-stream or channel close had been delivered by the time T.
EosByDeadline == endCause \in {"eof", "closed"} /\ endAt <= TimeoutDuration

\* C7: with timeout T, if the backend has not delivered end-of-stream or
\* close by T, exec_complete has timeout = true and exit_code = 124 and is
\* emitted no later than 100 ms after T, send time not counted.
C7_TimeoutAtDeadline ==
    (ExecDone /\ ~EosByDeadline)
       => /\ LastIs("exec_complete")
          /\ Last(wsOut).b = 1
          /\ Last(wsOut).a = EXEC_TIMEOUT_CODE
          /\ elapsed - sendTime <= TimeoutDuration + EXEC_POLL_MS

\* C7, amended: exec_complete is emitted no later than 100 ms after T, send
\* time not counted; if the loop's wall-clock check found T reached (no
\* end-of-stream or close arrived in a channel wait that began before T) it
\* has timeout = true and exit_code = 124.
C7_TimeoutAtCheck ==
    ExecDone
       => /\ LastIs("exec_complete")
          /\ elapsed - sendTime <= TimeoutDuration + EXEC_POLL_MS
          /\ endCause = "timeout"
                => Last(wsOut).b = 1 /\ Last(wsOut).a = EXEC_TIMEOUT_CODE

\* C7's case: T = 1 s, and the check that ended the loop came after T.
C7_Witness ==
    /\ ExecDone /\ endCause = "timeout"
    /\ params.timeout_secs = 1
    /\ elapsed - sendTime > TimeoutDuration

\* C8: once the exec request is accepted the poll loop terminates and
\* exec_complete is emitted, whatever the backend does.
C8_ExecTerminates ==
    (pc = "exec_loop") ~> (pc = "done" /\ LastIs("exec_complete"))

\* C8's case: the backend never sent a channel event and the loop ended.
C8_Witness ==
    /\ ExecDone /\ nEvents = 0 /\ endCause = "timeout"
    /\ params.timeout_secs = 1
    /\ LastIs("exec_complete")

\* C9: an exit-status event ends execution: once one has arrived the poll
\* loop is over, and exec_complete carries that status.
C9_ExitStatusEnds ==
    seenExit # << >>
       => /\ pc # "exec_loop"
          /\ ExecDone => LastIs("exec_complete") /\ Last(wsOut).a = seenExit[1]

\* C9, amended: an exit-status event is recorded and the loop goes on;
\* exec_complete is emitted once end-of-stream or close arrives or the
\* timeout elapses, and carries the most recent exit status (0 if none
\* arrived) in the first case and 124 in the second.
C9_ExitStatusRecorded ==
    /\ pc = "exec_loop"
          => code = IF seenExit = << >> THEN None ELSE Some(Last(seenExit))
    /\ ExecDone
          => /\ endCause \in {"eof", "closed", "timeout"}
             /\ LastIs("exec_complete")
             /\ Last(wsOut).a = IF endCause = "timeout" THEN EXEC_TIMEOUT_CODE
                                ELSE IF seenExit = << >> THEN 0
                                ELSE Last(seenExit)

\* C9's case: two exit-status events, then end-of-stream.
C9_Witness ==
    /\ ExecDone /\ endCause = "eof"
    /\ Len(seenExit) = 2 /\ seenExit[1] # seenExit[2]

\* The exec_complete frames in the log.
ExecCompletes == { i \in 1..Len(wsOut) : wsOut[i].type = "exec_complete" }

\* C10: a session whose exec request was accepted sends exactly one
\* exec_complete; it is the last frame sent, and the socket is closed with
\* it.
C10_OneFinalExecComplete ==
    /\ Cardinality(ExecCompletes) <= 1
    /\ \A i \in ExecCompletes : i = Len(wsOut) /\ ws = "closed"
    /\ ExecDone => Cardinality(ExecCompletes) = 1

\* C10's case: output was streamed, then the session completed.
C10_Witness ==
    /\ ExecDone /\ output # << >>
    /\ Cardinality(ExecCompletes) = 1
    /\ \E i \in 1..Len(wsOut) : wsOut[i].type = "text" /\ wsOut[i].ok

\* C11: never more than the pool's capacity (10) of buffers are checked out
\* at the same time, and never more are created; while the pool is exhausted
\* a step neither hands out nor creates a buffer (the session that asked
\* waits).
C11_PoolBounded ==
    /\ [](/\ BagCardinality(poolOut) <= POOL_MAX_SIZE
          /\ poolCreated <= POOL_MAX_SIZE
          /\ BagCardinality(poolOut) + Len(poolIdle) = poolCreated)
    /\ [][ BagCardinality(poolOut) >= POOL_MAX_SIZE
             => /\ poolCreated' = poolCreated
                /\ BagCardinality(poolOut') <= BagCardinality(poolOut)
                /\ poolWaiters' >= poolWaiters ]_vars

\* C11's case: the pool is exhausted and a further session waits in get().
C11_Witness ==
    /\ BagCardinality(poolOut) = POOL_MAX_SIZE
    /\ poolWaiters >= 1

\* C12: a buffer that has been released and recycled for reuse has length
\* zero and the capacity fixed at pool construction.
C12_RecycleEmpties ==
    lastRecycled # None
       => /\ Unwrap(lastRecycled).len = 0
          /\ Unwrap(lastRecycled).cap = POOL_BUFFER_SIZE

\* The set_metadata requests made so far.
SetMetadataOps == { i \in 1..Len(remoteOps) : remoteOps[i].op = "set_metadata" }

\* C13: every mode set_permissions writes differs from the mode the file
\* had only within the permission bits 0o777, which are those of the mode
\* asked for, and so it keeps the file-type bits 0o170000 of the file.
C13_OnlyPermissionBitsChange ==
    \A i \in SetMetadataOps :
        LET c == remoteOps[i].a
            w == remoteOps[i].b
            q == remoteOps[i].p
        IN /\ BitAnd(w, PERM_MASK) = BitAnd(q, PERM_MASK)
           /\ w - BitAnd(w, PERM_MASK) = c - BitAnd(c, PERM_MASK)
           /\ BitAnd(w, S_IFMT) = BitAnd(c, S_IFMT)

\* The frames a step hands to the socket.
NewFrames == SubSeq(wsOut', Len(wsOut) + 1, Len(wsOut'))

\* The requests a step makes of the backend.
NewOps == SubSeq(remoteOps', Len(remoteOps) + 1, Len(remoteOps'))

\* The step takes the command `cmd` from the socket.
Takes(cmd) == nMsgs' = nMsgs + 1 /\ lastCmd' = cmd

\* C14: a read_file_content whose file reports more than 2 MiB sends one
\* error message and nothing else and never opens the file; a file of
\* exactly 2 MiB is not turned away: the command goes on to open it.
C14_LargeFileRejected ==
    [][ Takes("read_file_content") /\ NewOps # << >> =>
          /\ NewOps[1].a > MAX_CONTENT_SIZE =>
                /\ Len(NewFrames) = 1
                /\ NewFrames[1].type = "error"
                /\ \A i \in 1..Len(NewOps) : NewOps[i].op = "metadata"
          /\ NewOps[1].a = MAX_CONTENT_SIZE =>
                /\ Len(NewOps) >= 2
                /\ NewOps[2].op = "open" ]_vars

C14_Witness ==
    /\ lastCmd = "read_file_content"
    /\ remoteOps # << >>
    /\ Last(remoteOps).op = "metadata"
    /\ Last(remoteOps).a > MAX_CONTENT_SIZE
    /\ LastIs("error")

\* Where a handler stands while it negotiates: before the bridge loop and
\* before the connected message.
NegotiationPcs ==
    {"start", "ssh_connect", "sftp_connect", "ssh_channel", "shell_setup", "exec_start"}

\* C15: in both gateways a handler that gives up during negotiation, at
\* whatever step, hands exactly one error message to the socket and
\* returns without entering the bridge loop.
C15_NegotiationFailureReported ==
    [][ (pc \in NegotiationPcs) /\ pc' = "done" =>
          Len(NewFrames) = 1 /\ NewFrames[1].type = "error"
      ]_vars

\* Where a handler stands when it is about to call connect_by_password.
ConnectPcs == {"ssh_connect", "sftp_connect"}

\* What the handler must have read for a connection to be allowed: a user,
\* a parameters frame, a host from the registry if one was looked up, and
\* all four fields.
Eligible(n) ==
    /\ n.login
    /\ n.first = "params"
    /\ n.lookup # "inline" => n.lookup = "found"
    /\ n.lookup \in {"inline", "found"}
    /\ n.complete

\* C16: in both gateways the handler reaches the connect call only with
\* the caller resolved, a host found when the registry was asked, and host,
\* port, username and password all present; in every other case it returns
\* without connecting, and no backend handle appears anywhere else.
C16_ConnectOnlyWhenResolved ==
    /\ [](pc \in ConnectPcs => Eligible(nego))
    /\ [][ pc = "start" /\ pc' # "start" /\ ~Eligible(nego')
             => pc' = "done" /\ authed' = authed /\ guard' = guard ]_vars
    /\ [][ authed' # authed \/ (guard' /\ ~guard) => pc \in ConnectPcs ]_vars

C16_Witness == pc \in ConnectPcs /\ nego.lookup = "found" /\ nego.complete

\* The step handles a command: it takes one from the socket or runs one
\* more turn of a download.
CommandStep ==
    \/ nMsgs' = nMsgs + 1 /\ lastCmd' \notin {"binary", "ignored"}
    \/ pc = "sftp_download"

\* How many error messages there are among `fr`.
ErrorsIn(fr) == Cardinality({ i \in 1..Len(fr) : fr[i].type = "error" })

\* C17: a command of a file-transfer session that fails, by an error or by
\* a panic, is answered with exactly one error message, and the loop is
\* still there for the next command, on the same transport session.
C17_FailureReportedLoopContinues ==
    [][ CommandStep /\ lastResult' \in {"err", "panic"} =>
          /\ ErrorsIn(NewFrames) = 1
          /\ pc' = "sftp_loop"
          /\ guard' = guard /\ disconnects' = disconnects
      ]_vars

\* The dispatcher's error path has just run with an upload in progress.
UnrelatedFailure ==
    /\ upload_state # None
    /\ nMsgs' = nMsgs + 1
    /\ lastCmd' \in {"simple", "download_file", "set_permissions", "read_file_content"}
    /\ lastResult' = "err"

\* C18: a failing command that has nothing to do with the upload (a
\* listing, a download, a permission change, ...) leaves the upload in
\* progress as it was: same state, handle still open.
C18_UnrelatedFailureKeepsUpload ==
    [][ UnrelatedFailure => upload_state' = upload_state /\ files' = files ]_vars

\* C19: when the command loop is left with an upload in progress, the
\* upload's handle is closed, once and unflushed, while the guard still
\* holds the transport session; the release of the session comes only with
\* the return, and no handle is open once the handler has returned.
C19_ExitClosesUploadFirst ==
    /\ [][ pc = "sftp_loop" /\ pc' = "sftp_return" /\ upload_state # None =>
             LET h == Unwrap(upload_state).file IN
             /\ ~files'[h].open
             /\ files'[h].closes = 1
             /\ ~files'[h].flushed
             /\ guard' /\ disconnects' = 0
         ]_vars
    /\ [](pc = "sftp_return" =>
             /\ upload_state = None
             /\ \A h \in 1..Len(files) : ~files[h].open
             /\ guard /\ disconnects = 0)
    /\ [](kind = "sftp" /\ pc = "done" =>
             \A h \in 1..Len(files) : ~files[h].open /\ files[h].closes = 1)

C19_Witness ==
    /\ pc = "sftp_return"
    /\ lastCmd = "binary" /\ lastResult = "ok"
    /\ Len(files) = 1
    /\ files[1].written > 0 /\ files[1].timeouts = 0
    /\ files[1].closes = 1 /\ ~files[1].flushed
    /\ guard /\ disconnects = 0

\* C20: a binary frame that arrives while no upload is active is dropped:
\* nothing is sent, nothing is asked of the backend, there is still no
\* upload, and the loop goes on.
C20_StrayChunkDropped ==
    [][ Takes("binary") /\ upload_state = None =>
          /\ wsOut' = wsOut /\ ws' = ws
          /\ remoteOps' = remoteOps
          /\ upload_state' = None /\ files' = files
          /\ pc' = "sftp_loop"
      ]_vars

C20_Witness ==
    /\ pc = "sftp_loop"
    /\ lastCmd = "binary"
    /\ files = << >>
    /\ upload_state = None
    /\ ~LastIs("error")

\* The relay loop takes a client text frame of the given shape.
ShellTakesText(shape) ==
    /\ kind = "ssh" /\ pc = "shell_loop"
    /\ nMsgs' = nMsgs + 1
    /\ lastFrame'.frame = "text"
    /\ lastFrame'.text.shape = shape

RECURSIVE EventPayloads(_)
EventPayloads(evs) ==
    IF evs = << >> THEN << >>
    ELSE (IF Head(evs).ev \in {"data", "extended"} THEN << Head(evs).data >> ELSE << >>)
         \o EventPayloads(Tail(evs))

\* The payloads of the binary frames among `fr` that reached the client.
RECURSIVE BinaryPayloads(_)
BinaryPayloads(fr) ==
    IF fr = << >> THEN << >>
    ELSE (IF Head(fr).type = "binary" /\ Head(fr).ok THEN << Head(fr).info >> ELSE << >>)
         \o BinaryPayloads(Tail(fr))

\* `s` is `t`, or `t` without its last element.
AllButAtMostLast(s, t) == s = t \/ (t # << >> /\ s = SubSeq(t, 1, Len(t) - 1))

\* C22: in a terminal session the binary frames the client got are the
\* data and extended-data events taken from the channel, same bytes, same
\* order, none missing or twice while the loop runs (the loop is left with
\* the one event whose frame could not be sent); no other frame carries
\* channel bytes.
C22_RelayFaithful ==
    kind = "ssh" /\ params.mode = "shell" =>
        /\ pc = "shell_loop" => BinaryPayloads(wsOut) = EventPayloads(chanIn)
        /\ AllButAtMostLast(BinaryPayloads(wsOut), EventPayloads(chanIn))
        /\ \A i \in 1..Len(wsOut) : wsOut[i].type # "binary" => wsOut[i].info \notin ShellPayloads

C22_Witness ==
    /\ pc = "shell_loop"
    /\ Len(chanIn) = 2
    /\ chanIn[1] = ChanEvent("data", << "a" >>)
    /\ chanIn[2] = ChanEvent("extended", << "C3" >>)
    /\ BinaryPayloads(wsOut) = << << "a" >>, << "C3" >> >>

\* The events that end a terminal relay.
EndingEvents == {"eof", "exit_status", "closed"}

\* The loop has taken an ending event from the channel.
ChannelEnded == \E i \in 1..Len(chanIn) : chanIn[i].ev \in EndingEvents

\* C23: in a terminal session the step that takes end-of-stream, an exit
\* status or the channel's close sends one closed message and leaves the
\* loop; from then on nothing is written to the channel, nothing is sent to
\* the client and no further event is taken.
C23_ChannelEndClosesOnce ==
    /\ [][ kind = "ssh" /\ pc = "shell_loop" /\ ~ChannelEnded /\ ChannelEnded' =>
             /\ Len(NewFrames) = 1
             /\ NewFrames[1].type = "closed"
             /\ pc' = "done"
             /\ chanOut' = chanOut
         ]_vars
    /\ [][ ChannelEnded =>
             chanOut' = chanOut /\ wsOut' = wsOut /\ chanIn' = chanIn ]_vars

C23_Witness ==
    /\ pc = "done"
    /\ ChannelEnded
    /\ Len(chanIn) = 2
    /\ chanIn[1].ev = "data"
    /\ chanOut # << >>
    /\ LastIs("closed")

\* C24: once the client is gone the file-transfer handler eventually
\* returns, releasing its transport session, wherever it stood: in
\* negotiation, waiting for a pooled buffer, in the loop, in a download.
C24_ClientGoneEndsSession ==
    (kind = "sftp" /\ ws = "broken") ~> (Returned /\ ~guard)

\* C25: a file-transfer session waiting in its loop for the next event, no
\* download or upload_local chunk being read or written, holds no pooled
\* buffer.
C25_IdleHoldsNoBuffer ==
    (kind = "sftp" /\ pc = "sftp_loop") => buffer = None

\* The requests of the most recent upload_local, from the local metadata on.
UploadLocalStarts == { i \in 1..Len(remoteOps) : remoteOps[i].op = "local_metadata" }
UploadLocalOps ==
    IF UploadLocalStarts = {} THEN << >>
    ELSE SubSeq(remoteOps, Max(UploadLocalStarts), Len(remoteOps))

\* The bytes the write requests among `ops` carry, and whether they carry
\* the file from offset `at` on without gap or overlap.
RECURSIVE WrittenBytes(_)
WrittenBytes(ops) ==
    IF ops = << >> THEN 0
    ELSE (IF Head(ops).op = "write_all" THEN Head(ops).b ELSE 0) + WrittenBytes(Tail(ops))
RECURSIVE WritesContiguous(_, _)
WritesContiguous(ops, at) ==
    IF ops = << >> THEN TRUE
    ELSE IF Head(ops).op = "write_all"
         THEN Head(ops).a = at /\ WritesContiguous(Tail(ops), at + Head(ops).b)
         ELSE WritesContiguous(Tail(ops), at)

\* upload_local has just answered with its success acknowledgement.
UploadLocalAcked ==
    /\ lastCmd = "upload_local" /\ lastResult = "ok"
    /\ LastIs("success") /\ Last(wsOut).info = << "upload_local_done" >>

\* C26: when upload_local has acknowledged success, the writes it made carry
\* the local file from its first byte to its last (their sizes add up to the
\* local file's length), and for a non-empty file the message before the
\* acknowledgement is an upload_progress with received = total.
C26_UploadLocalIsWholeFile ==
    UploadLocalAcked =>
       /\ WritesContiguous(UploadLocalOps, 0)
       /\ WrittenBytes(UploadLocalOps) = UploadLocalOps[1].a
       /\ UploadLocalOps[1].a > 0 =>
             /\ Len(wsOut) > 1
             /\ wsOut[Len(wsOut) - 1].type = "upload_progress"
             /\ wsOut[Len(wsOut) - 1].a = wsOut[Len(wsOut) - 1].b

\* C27: an upload_file_end that finds no upload is answered with one error
\* message and nothing else, asks nothing of the backend and leaves the
\* session as it was; an upload_file_cancel first hands the socket its
\* success acknowledgement and leaves no upload state, and no open handle of
\* one, whether or not an upload was active.
C27_EndNeedsUploadCancelDoesNot ==
    [][ /\ (Takes("upload_file_end") /\ upload_state = None) =>
              /\ Len(NewFrames) = 1 /\ NewFrames[1].type = "error"
              /\ remoteOps' = remoteOps
              /\ upload_state' = None /\ files' = files
              /\ pc' = "sftp_loop"
        /\ Takes("upload_file_cancel") =>
              /\ NewFrames # << >>
              /\ NewFrames[1] = Frame("success", << "upload_cancelled" >>, 0, 0, ws' = "open")
              /\ upload_state' = None
              /\ \A i \in 1..Len(files') : ~files'[i].open
              /\ remoteOps' = remoteOps
      ]_vars

C27_Witness ==
    /\ lastCmd = "upload_file_cancel"
    /\ upload_state = None
    /\ files # << >> /\ files[1].closes = 1 /\ ~files[1].flushed
    /\ LastIs("success") /\ Last(wsOut).ok

\* C28: in both gateways a request from a logged-in caller whose only
\* credential is a private key (inline, or a registry host that stores a key
\* and no password) is accepted: the handler goes on to the connect call.
C28_KeyCredentialAccepted ==
    [][ (pc = "start") /\ nego'.key => pc' \in ConnectPcs ]_vars

\* The requests of the close tasks, in order.
CloseLog == SelectSeq(remoteOps, LAMBDA o : o.op \in {"sftp_close", "disconnect", "close_returned"})

\* C29: closing a file-transfer transport session is best-effort and done
\* at most once: whatever the SFTP close answered, the SSH disconnect is
\* requested after it and close returns Ok; the guard starts one close at
\* most, and only a handler that held a connection starts one.
C29_CloseBestEffortOnce ==
    /\ disconnects <= 1
    /\ guard => disconnects = 0
    /\ CloseLog # << >> =>
          /\ Len(CloseLog) = 3
          /\ CloseLog[1].op = "sftp_close"
          /\ CloseLog[2].op = "disconnect"
          /\ CloseLog[3] = Op("close_returned", 1, 0)

C29_Witness ==
    /\ kind = "sftp" /\ pc = "done" /\ ~guard
    /\ Len(CloseLog) = 3
    /\ CloseLog[1] = Op("sftp_close", 0, 0)
    /\ CloseLog[2] = Op("disconnect", 0, 0)

ShellPhase(p) ==
    CASE p \in {"start", "ssh_connect"} -> 1
      [] p \in {"ssh_channel", "shell_setup"} -> 2
      [] p = "shell_loop" -> 3
      [] OTHER -> 4

\* What the backend answered to the requests of the given name.
Answers(name) == { remoteOps[i].a : i \in { j \in 1..Len(remoteOps) : remoteOps[j].op = name } }

\* C31: a terminal session goes through Connecting, Negotiating, Streaming
\* and Closed in that order and never back; the connected message is sent
\* only when the pty request and the shell request were both granted, and
\* until Streaming nothing is written to the channel and nothing is
\* forwarded from it.
C31_TerminalPhases ==
    [][ (kind = "ssh") /\ pc' \notin {"exec_start", "exec_loop"} /\ pc # "exec_loop"
           /\ pc # "exec_start" =>
          /\ ShellPhase(pc') >= ShellPhase(pc)
          /\ (\E i \in 1..Len(wsOut') : wsOut'[i].type = "connected") =>
                Answers("request_pty")' = {1} /\ Answers("request_shell")' = {1}
          /\ ShellPhase(pc) < 3 =>
                /\ chanOut = << >> /\ chanIn = << >>
                /\ \A i \in 1..Len(wsOut) : wsOut[i].type \notin {"binary", "closed"}
          /\ (pc # "shell_loop" /\ pc' = "shell_loop") => LastIs("connected")'
      ]_vars

C31_Witness ==
    /\ kind = "ssh" /\ pc = "done"
    /\ wsOut # << >> /\ wsOut[1].type = "connected"
    /\ chanOut # << >> /\ chanIn # << >>
    /\ LastIs("closed")

\* The relay loop takes a timer tick; it takes a client text or binary frame.
ShellTick == kind = "ssh" /\ pc = "shell_loop" /\ nextTick' # nextTick
ShellInput ==
    /\ kind = "ssh" /\ pc = "shell_loop"
    /\ nMsgs' = nMsgs + 1 /\ lastFrame'.frame \in {"text", "binary"}

\* The keep-alive writes among the channel writes.
KeepaliveWrites == { i \in 1..Len(chanOut) : chanOut[i] = ChanWrite("data", KeepaliveBytes) }

\* C32: in a terminal session the activity stamp is the time of the last
\* client text or binary frame (of the start of streaming before the
\* first); a timer tick writes the keep-alive sequence exactly when more than
\* 50 s have passed since that stamp and leaves the stamp alone, so the
\* sequence is written again on each later tick until the client sends a
\* frame; no other step writes it or moves the stamp.
C32_KeepaliveWhenIdle ==
    [][ (kind = "ssh") /\ pc = "shell_loop" =>
          /\ lastInput' = IF ShellInput THEN now ELSE lastInput
          /\ IF ShellTick
             THEN chanOut' = IF now - lastInput > 50
                             THEN Append(chanOut, ChanWrite("data", KeepaliveBytes))
                             ELSE chanOut
             ELSE KeepaliveWrites' = KeepaliveWrites
      ]_vars

C32_Witness ==
    /\ kind = "ssh" /\ pc = "shell_loop"
    /\ lastInput = 0
    /\ now - lastInput > KEEPALIVE_IDLE_SECS + TICK_SECS
    /\ Cardinality(KeepaliveWrites) = 2
    /\ chanOut[1].bytes = BinaryData

\* C33: a client text frame that is no structured command is written to
\* the channel as it came, byte for byte, in one write; if the write fails
\* nothing is written and the relay loop is left.
C33_RawTextVerbatim ==
    [][ ShellTakesText("raw") =>
          \/ /\ chanOut' = Append(chanOut, ChanWrite("data", lastFrame'.text.data))
             /\ pc' = "shell_loop"
          \/ /\ chanOut' = chanOut
             /\ pc' = "done" /\ ~guard'
      ]_vars

C33_Witness ==
    /\ kind = "ssh" /\ pc = "shell_loop"
    /\ lastFrame.frame = "text" /\ lastFrame.text.shape = "raw"
    /\ chanOut # << >>
    /\ Last(chanOut) = ChanWrite("data", RawText)

\* The bytes of the output events among `evs`, in arrival order.
RECURSIVE EventBytes(_)
EventBytes(evs) ==
    IF evs = << >> THEN << >> ELSE Head(evs).data \o EventBytes(Tail(evs))

\* The text frames that streamed output to the client, in order.
StreamedTexts ==
    SelectSeq(wsOut, LAMBDA f : f.type = "text" /\ f.info # << "timeout_notice" >>)

\* C34: the output of exec_complete is the text of the bytes the stdout and
\* stderr events carried, taken together in arrival order, and every such
\* event was handed to the socket as a frame of its own before exec_complete.
C34_OutputIsWhatArrived ==
    (ExecDone /\ LastIs("exec_complete")) =>
       /\ Last(wsOut).info = Utf8Lossy(EventBytes(chanIn))
       /\ Len(StreamedTexts) = Len(chanIn)

\* C35: the timeout flag of exec_complete is true exactly when the timeout
\* branch ended the loop, and then exit_code is 124; a loop ended by
\* end-of-stream or channel close reports timeout = false.
C35_TimeoutFlagIsCause ==
    (ExecDone /\ LastIs("exec_complete")) =>
       /\ Last(wsOut).b = 1 <=> endCause = "timeout"
       /\ endCause = "timeout" => Last(wsOut).a = EXEC_TIMEOUT_CODE

\* C36: whatever events arrived, the exit_code of exec_complete is 124 when
\* the timeout branch ended the loop, exit statuses received before it
\* notwithstanding; otherwise it is the last exit status received, and 0
\* when end-of-stream or channel close came with no exit status before it.
C36_ExitCodeRule ==
    \A i \in ExecCompletes :
       wsOut[i].a = CASE endCause = "timeout" -> 124
                      [] endCause # "timeout" /\ seenExit # << >> -> seenExit[Len(seenExit)]
                      [] OTHER -> 0

C36_Witness ==
    /\ ExecDone /\ endCause = "timeout"
    /\ seenExit # << >> /\ Last(seenExit) # EXEC_TIMEOUT_CODE
    /\ ExecCompletes # {}
    /\ Last(wsOut).a = EXEC_TIMEOUT_CODE


\* C37: while a download streams, the size declared in a download_chunk
\* header is never more than the length of the pooled buffer the chunk was
\* read into (which is never more than the 5 MiB a buffer has when it leaves
\* the pool), so taking buffer[..size] never goes out of bounds and the
\* session never unwinds after a header it has sent.
C37_ChunkFitsBuffer ==
    /\ \A i \in 1..Len(wsOut) :
          wsOut[i].type = "download_chunk" => wsOut[i].b <= POOL_BUFFER_SIZE
    /\ (pc = "panicked" /\ wsOut # << >>)
          => ~(Last(wsOut).type = "download_chunk" /\ Last(wsOut).ok)


\* The pooled buffers held at this moment: those of the other sessions and
\* the one of this session.
BuffersHeld == BagCardinality(poolOut) + (IF buffer = None THEN 0 ELSE 1)

\* C38: a file-transfer session takes its one pooled buffer at the checkout
\* that follows the connected message and keeps it until its handler ends, so
\* never more than POOL_MAX_SIZE sessions hold a buffer (are in the command
\* loop) at once; while the others hold all of them the session stays at the
\* checkout, takes no client frame, sends nothing and keeps its backend
\* connection, and it goes on only after another session has returned a
\* buffer.
C38_OneBufferPerSession ==
    /\ [](/\ BuffersHeld <= POOL_MAX_SIZE
          /\ pc \in {"sftp_loop", "sftp_return"} => buffer # None
          /\ buffer # None => \E i \in 1..Len(wsOut) : wsOut[i].type = "connected"
          /\ pc = "sftp_checkout" => (guard /\ disconnects = 0 /\ nMsgs = 0))
    /\ [][ /\ (buffer = None /\ buffer' # None)
               => (pc = "sftp_checkout" /\ LastIs("connected")
                     /\ BagCardinality(poolOut) < POOL_MAX_SIZE)
           /\ (buffer # None /\ buffer' = None) => pc' \in {"done", "panicked"}
           /\ (pc = "sftp_checkout" /\ BagCardinality(poolOut) = POOL_MAX_SIZE)
               => (/\ UNCHANGED << pc, ws, wsOut, nMsgs, lastCmd, guard, disconnects,
                                   buffer, remoteOps >>
                   /\ BagCardinality(poolOut') <= BagCardinality(poolOut)) ]_vars

\* C38's case: the session found the pool exhausted, another session gave
\* its buffer back, and the session is now in its loop with a buffer of its
\* own and has taken a command, nine other sessions still holding theirs.
C38_Witness ==
    /\ pc = "sftp_loop" /\ buffer # None
    /\ BagCardinality(poolOut) = POOL_MAX_SIZE - 1
    /\ Len(poolIdle) = 1
    /\ nMsgs >= 1


\* The upload in progress got bytes written to its remote file in this step.
ChunkWritten ==
    /\ upload_state # None
    /\ files'[Unwrap(upload_state).file].written > files[Unwrap(upload_state).file].written

\* C39: the activity timestamp of an upload is the time it was started or
\* the time of its last successfully written chunk, and nothing else moves
\* it; the reaper discards an upload only when at least the idle threshold
\* (300 s) has passed since then; and in a loop that is waiting, a timer tick
\* that finds an upload past the threshold discards it, the ticks being 30 s
\* apart, so that no upload in the loop is ever idle for more than 330 s.
C39_ReaperSparesActiveUpload ==
    /\ [](( pc = "sftp_loop" /\ upload_state # None)
            => /\ now - Unwrap(upload_state).last_activity
                    <= UPLOAD_IDLE_SECS + TICK_SECS
               /\ nextTick <= now + TICK_SECS)
    /\ [][ /\ (upload_state' # None /\ upload_state' # upload_state)
               => Unwrap(upload_state').last_activity
                    = IF upload_state = None \/ ChunkWritten
                      THEN now ELSE Unwrap(upload_state).last_activity
           /\ ChunkWritten
               => (upload_state' # None /\ Unwrap(upload_state').last_activity = now)
           /\ (upload_state # None /\ TimeoutErrors(wsOut') > TimeoutErrors(wsOut))
               => ~(now - Unwrap(upload_state).last_activity < UPLOAD_IDLE_SECS)
           /\ (pc = "sftp_loop" /\ nextTick' # nextTick /\ upload_state # None
                 /\ now - Unwrap(upload_state).last_activity > UPLOAD_IDLE_SECS)
               => (upload_state' = None
                     /\ TimeoutErrors(wsOut') = TimeoutErrors(wsOut) + 1) ]_vars

\* C39's case: an upload started at 0 s had a chunk written at 30 s; the
\* tick at 330 s, 330 s after the start but 300 s after the chunk, has fired
\* and left it alone.
C39_Witness ==
    /\ pc = "sftp_loop" /\ upload_state # None
    /\ Unwrap(upload_state).received > 0
    /\ Unwrap(upload_state).last_activity = TICK_SECS
    /\ now = 11 * TICK_SECS /\ nextTick = 12 * TICK_SECS

====
